---------------------------- MODULE Spec2Model ----------------------------
(***************************************************************************)
(* A model of the aegisflux ETL enrichment consumer                        *)
(* (backend/etl-enrich/app/consumer.py, enrich.py).                        *)
(*                                                                         *)
(* The consumer is a single asyncio process.  Code between two awaits runs *)
(* atomically; a handler may be suspended at an await while the callback   *)
(* of another subscription runs.  Each action below is the code a handler  *)
(* runs from one suspension point to the next.  The bus invokes the        *)
(* callback of a feeds subscription for one message at a time (per-subject *)
(* order), so at most one CVE handler and one package-mapping handler are  *)
(* in progress, and they interleave at their bus publishes.                *)
(***************************************************************************)
EXTENDS Integers, Sequences, FiniteSets, TLC

VARIABLES
    cve_cache,      \* EventConsumer.cve_cache: dict cve_id -> descriptor
    pkg_cve_cache,  \* EventConsumer.pkg_cve_cache: insertion-ordered dict,
                    \*   a sequence of [key, val] entries
    etl_enriched,   \* join records published to etl.enriched, in order
    cveH,           \* the _handle_cve_update callback in progress (or last run)
    pkgH,           \* the _handle_pkg_cve_mapping callback in progress (or last run)
    feedLeft,       \* feed messages the bus may still deliver
    clock,          \* number of feed messages delivered so far
    cve_hist,       \* history: cve_id -> versions of the descriptors handled
    pkg_hist,       \* history: cache key -> timestamps of the mappings handled
    raw,            \* the _process_message callbacks, one per events.raw
                    \*   message, in delivery order
    semaphore,      \* EventConsumer.semaphore: free permits
    rawLeft,        \* events.raw messages the bus may still deliver
    call,           \* the last call of a library function of the service:
                    \*   its name, its arguments and what it returned
    graph,          \* the graph store written by Neo4jWriter: nodes, edges
                    \*   and the store's clock
    life            \* main(): where the process is between start-up and exit,
                    \*   what it connected and closed, the shutdown event

joinVars == <<cve_cache, pkg_cve_cache, etl_enriched, cveH, pkgH, feedLeft, clock,
              cve_hist, pkg_hist>>

rawVars == <<raw, semaphore, rawLeft>>

vars == <<cve_cache, pkg_cve_cache, etl_enriched, cveH, pkgH, feedLeft, clock,
          cve_hist, pkg_hist, raw, semaphore, rawLeft, call, graph, life>>

\* no function has been called
NoCall == [fn |-> "none"]

\* neo4j.py: the store before anything is written
EmptyGraph == [clock |-> 0, edges |-> <<>>, nodes |-> <<>>, upserts |-> <<>>]

\* consumer.py 40-63: the components in the order connect() connects them
Components == <<"bus", "tsw", "gw">>

\* main() between start-up and exit.  pc is the await it is at; connected
\* and closed list, in order, what connect() and disconnect() did; created
\* are the components whose client object exists; failed is the step of
\* disconnect() that raised; late are the handlers the bus started after
\* the shutdown event was set; exit_code is <<>> while the process lives.
Process(pc, connected, running) ==
    [ closed |-> <<>>, connected |-> connected, created |-> connected,
      disconnect_raised |-> FALSE, exit_code |-> <<>>, failed |-> <<>>,
      late |-> {}, pc |-> pc, running |-> running, shutdown_event |-> FALSE,
      signalled_running |-> FALSE, signals |-> 0, startup_error |-> FALSE,
      stop_tasks |-> 0, subscribed |-> (pc = "wait") ]

\* consumer.py 396: start() has subscribed and waits for the shutdown event
Serving == Process("wait", Components, TRUE)

\* the service is up, its stores are empty
InitServing == graph = EmptyGraph /\ life = Serving

---------------------------------------------------------------------------
(* Bounds of the model.                                                    *)

\* feed messages (feeds.cve.updates and feeds.pkg.cve together) delivered in a run
MaxFeedMsgs == 4

\* the maximum cache size the specification asks for (200k by default there),
\* scaled down; the consumer itself has no such setting
MaxCacheSize == 2

\* events.raw messages delivered in a run
MaxRawMsgs == 2

\* max_inflight, the capacity of the semaphore (100 by default), scaled down
MaxInflight == 1

\* messages delivered in a run of the whole dispatcher (all three subjects)
DispatchFeedMsgs == 2
DispatchRawMsgs == 1

---------------------------------------------------------------------------
(* JSON values.                                                            *)

JNull == [t |-> "null"]
JNum(v) == [t |-> "num", v |-> v]
JStr(s) == [t |-> "str", v |-> s]

CveIds == {"CVE-X", "CVE-Y"}

\* A candidate as the package mapper publishes it: cvss_score and severity
\* are null when the CVE carries no CVSS base score.
Candidate(id, cvss, sev) ==
    [cve_id |-> id, score |-> JNum(900), cvss_score |-> cvss, severity |-> sev]

ScoredCandidate(id) == Candidate(id, JNum(85), JStr("HIGH"))
UnscoredCandidate(id) == Candidate(id, JNull, JNull)

\* The candidate lists of the model: the mapper emits one candidate per CVE
\* id, so the ids of a list are distinct.
CandidateLists ==
    { <<ScoredCandidate("CVE-X")>>,
      <<UnscoredCandidate("CVE-X")>>,
      <<ScoredCandidate("CVE-Y"), ScoredCandidate("CVE-X")>> }

\* cache_key = f"{host_id}:{package_name}", kept as the pair it is built from
CacheKey(host_id, package_name) == <<host_id, package_name>>

Keys == { CacheKey("h1", "openssl"), CacheKey("h1", "curl"), CacheKey("h2", "openssl") }


\* feeds.cve.updates bodies: a descriptor of a known id, a JSON object
\* without cve_id, or bytes that orjson cannot parse.
CveUpdates ==
    { [json |-> "ok", cve_id |-> <<i>>] : i \in CveIds }
        \cup { [json |-> "ok", cve_id |-> <<>>], [json |-> "bad", cve_id |-> <<>>] }

\* feeds.pkg.cve bodies (the timestamp is stamped at delivery).
PkgCveMappings ==
    { [json |-> "ok", host_id |-> k[1], package |-> k[2], candidates |-> l]
        : k \in Keys, l \in CandidateLists }
        \cup { [json |-> "bad", host_id |-> "", package |-> "", candidates |-> <<>>] }

---------------------------------------------------------------------------
(* Python dictionaries.                                                    *)

EmptyDict == [k \in {} |-> 0]

\* first write wins: an entry already present is kept
DictPutIfAbsent(d, k, v) ==
    [x \in DOMAIN d \cup {k} |-> IF x = k /\ k \notin DOMAIN d THEN v ELSE d[x]]

\* d[k] = v on a dict held as a function
DictPut(d, k, v) == [x \in DOMAIN d \cup {k} |-> IF x = k THEN v ELSE d[x]]

\* position of key k in an insertion-ordered dict (0 when absent)
RECURSIVE OrderedFind(_, _, _)
OrderedFind(d, k, i) ==
    IF i > Len(d) THEN 0
    ELSE IF d[i].key = k THEN i
    ELSE OrderedFind(d, k, i + 1)

\* a store that keeps the replaced entry next to the new one
OrderedPutKeepReplaced(d, k, v) == Append(d, [key |-> k, val |-> v])

\* d[k] = v on an insertion-ordered dict: a known key keeps its position,
\* a new key is appended
OrderedPut(d, k, v) ==
    LET i == OrderedFind(d, k, 1) IN
    IF i = 0 THEN Append(d, [key |-> k, val |-> v])
    ELSE [d EXCEPT ![i] = [key |-> k, val |-> v]]

Last(s) == s[Len(s)]

---------------------------------------------------------------------------
(* enrich.py: the join record.                                             *)

\* calculate_exploitability_score raises on a null score (None * 0.4), a
\* null cvss_score (None > 0) or a null severity (None.lower()).
ScoreRaises(cve_data, candidate) ==
    \/ candidate.score = JNull
    \/ candidate.cvss_score = JNull
    \/ candidate.severity = JNull

enrich_pkg_cve_event(pkg_cve_data, candidate, cve_data) ==
    [ record_type |-> "pkg_cve_enriched",
      host_id |-> pkg_cve_data.host_id,
      package |-> pkg_cve_data.package,
      cve_candidate |-> candidate,
      cve_data |-> cve_data,
      original_timestamp |-> pkg_cve_data.timestamp ]

\* One publish to etl.enriched as the log keeps it: the record, the number
\* of the message whose handler published it, and (history) the latest
\* descriptor and mapping handled for its keys when it was published.
Published(record, n, chist, phist) ==
    [ record |-> record,
      during |-> n,
      latest_cve |-> Last(chist[record.cve_candidate.cve_id]),
      latest_pkg |-> Last(phist[CacheKey(record.host_id, record.package)]) ]

---------------------------------------------------------------------------
(* _handle_pkg_cve_mapping: the candidate loop, from index i up to the     *)
(* next publish (where the handler suspends) or the end of the list.       *)
(* hits / misses: the candidates found / not found in the CVE cache.       *)

RECURSIVE PkgRun(_, _, _, _, _)
PkgRun(pkg_cve_data, i, cache, hits, misses) ==
    IF i > Len(pkg_cve_data.candidates)
    THEN [pc |-> "done", idx |-> i, emit |-> <<>>, hits |-> hits, misses |-> misses]
    ELSE LET candidate == pkg_cve_data.candidates[i] IN
         IF candidate.cve_id \in DOMAIN cache
         THEN IF ScoreRaises(cache[candidate.cve_id], candidate)
              \* _process_pkg_cve_enrichment logs the error and returns
              THEN PkgRun(pkg_cve_data, i + 1, cache, hits \cup {i}, misses)
              ELSE [ pc |-> "publishing", idx |-> i + 1,
                     emit |-> <<enrich_pkg_cve_event(pkg_cve_data, candidate,
                                                     cache[candidate.cve_id])>>,
                     hits |-> hits \cup {i}, misses |-> misses ]
         ELSE PkgRun(pkg_cve_data, i + 1, cache, hits, misses \cup {i})

---------------------------------------------------------------------------
(* _process_pending_pkg_cve_mappings: the walk over pkg_cve_cache.items(), *)
(* from its current place up to the next publish or its end.  pos is the   *)
(* iterator's position, cur the mapping it last returned (<<>> between     *)
(* mappings), cidx the next candidate of cur, used the dict size when the  *)
(* iterator was created.  Advancing the iterator of a dict whose size has  *)
(* changed raises RuntimeError, which the walk's except clause logs.       *)

RECURSIVE WalkRun(_, _, _, _, _, _)
WalkRun(pos, cur, cidx, cache, cve_data, used) ==
    IF cur # <<>>
    THEN IF cidx > Len(cur[1].candidates)
         THEN WalkRun(pos, <<>>, 1, cache, cve_data, used)
         ELSE LET candidate == cur[1].candidates[cidx] IN
              IF candidate.cve_id = cve_data.cve_id /\ ~ScoreRaises(cve_data, candidate)
              THEN [ pc |-> "publishing", pos |-> pos, cur |-> cur, cidx |-> cidx + 1,
                     emit |-> <<enrich_pkg_cve_event(cur[1], candidate, cve_data)>>,
                     aborted |-> FALSE ]
              ELSE WalkRun(pos, cur, cidx + 1, cache, cve_data, used)
    ELSE IF Len(cache) # used
         THEN [ pc |-> "done", pos |-> pos, cur |-> <<>>, cidx |-> 1,
                emit |-> <<>>, aborted |-> TRUE ]
         ELSE IF pos >= Len(cache)
              THEN [ pc |-> "done", pos |-> pos, cur |-> <<>>, cidx |-> 1,
                     emit |-> <<>>, aborted |-> FALSE ]
              ELSE WalkRun(pos + 1, <<cache[pos + 1].val>>, 1, cache, cve_data, used)

---------------------------------------------------------------------------
(* The handlers.                                                           *)

IdleCve ==
    [ pc |-> "idle", n |-> 0, cve_data |-> [cve_id |-> "", last_modified |-> 0],
      used |-> 0, pos |-> 0, cur |-> <<>>, cidx |-> 1, retained |-> <<>>,
      aborted |-> FALSE, lost |-> {} ]

IdlePkg ==
    [ pc |-> "idle", n |-> 0, msg |-> [host_id |-> "", package |-> "",
      candidates |-> <<>>, timestamp |-> 0], idx |-> 1, hits |-> {}, misses |-> {},
      lost |-> {} ]

\* what the bus does with a publish to etl.enriched
JoinPublishOutcomes == {"ok", "raise"}

\* a failed publish that ends the handler
OnPublishErrorAbort(h, emit) ==
    [h EXCEPT !.lost = @ \cup {emit[i] : i \in DOMAIN emit}, !.pc = "done"]

\* lines 185-186: the publish raised inside _process_pkg_cve_enrichment;
\* the error is logged and the caller's loop goes on (lost: the records
\* whose publish raised)
OnPublishError(h, emit) ==
    [h EXCEPT !.lost = @ \cup {emit[i] : i \in DOMAIN emit}]

\* the handler once the publish it is suspended in has been answered
AfterPublish(h, emit, pub) ==
    IF pub = "ok" \/ emit = <<>> THEN h ELSE OnPublishError(h, emit)

\* The bus client awaits the callback of a subscription before it takes the
\* subscription's next message: one handler per feed subject at a time,
\* the handlers of different subjects interleaving at their awaits.

\* _handle_cve_update, up to its first publish, which the bus answers
\* with pub
CveUpdate(msg, pub) ==
    /\ feedLeft > 0
    /\ cveH.pc # "publishing"
    /\ feedLeft' = feedLeft - 1
    /\ clock' = clock + 1
    /\ UNCHANGED <<pkg_cve_cache, pkgH, pkg_hist, rawVars, call, graph, life>>
    /\ IF msg.json = "bad" \/ msg.cve_id = <<>>
       THEN /\ cveH' = [IdleCve EXCEPT !.pc = "done", !.n = clock']
            /\ UNCHANGED <<cve_cache, etl_enriched, cve_hist>>
       ELSE LET cve_id == msg.cve_id[1]
                cve_data == [cve_id |-> cve_id, last_modified |-> clock']
                run == WalkRun(0, <<>>, 1, pkg_cve_cache, cve_data, Len(pkg_cve_cache))
            IN  /\ cve_cache' = DictPut(cve_cache, cve_id, cve_data)
                /\ cve_hist' = [cve_hist EXCEPT ![cve_id] = Append(@, clock')]
                /\ etl_enriched' =
                       IF pub # "ok" THEN etl_enriched
                       ELSE etl_enriched \o
                            [i \in DOMAIN run.emit |->
                                Published(run.emit[i], clock', cve_hist', pkg_hist)]
                /\ cveH' = AfterPublish(
                       [ pc |-> run.pc, n |-> clock', cve_data |-> cve_data,
                         used |-> Len(pkg_cve_cache), pos |-> run.pos,
                         cur |-> run.cur, cidx |-> run.cidx,
                         retained |-> pkg_cve_cache, aborted |-> run.aborted,
                         lost |-> {} ], run.emit, pub)

HandleCveUpdate(msg) == CveUpdate(msg, "ok")

\* _process_pending_pkg_cve_mappings resumed after a publish, up to the
\* next one, which the bus answers with pub
CveWalkResume(pub) ==
    /\ cveH.pc = "publishing"
    /\ LET run == WalkRun(cveH.pos, cveH.cur, cveH.cidx, pkg_cve_cache,
                          cveH.cve_data, cveH.used)
       IN  /\ etl_enriched' =
                  IF pub # "ok" THEN etl_enriched
                  ELSE etl_enriched \o
                       [i \in DOMAIN run.emit |->
                           Published(run.emit[i], cveH.n, cve_hist, pkg_hist)]
           /\ cveH' = AfterPublish(
                  [cveH EXCEPT !.pc = run.pc, !.pos = run.pos, !.cur = run.cur,
                               !.cidx = run.cidx, !.aborted = run.aborted],
                  run.emit, pub)
    /\ UNCHANGED <<cve_cache, pkg_cve_cache, pkgH, feedLeft, clock, cve_hist, pkg_hist,
                   rawVars, call, graph, life>>

CveResume == CveWalkResume("ok")

\* _handle_pkg_cve_mapping, up to its first publish, which the bus
\* answers with pub
PkgCveMapping(msg, pub) ==
    /\ feedLeft > 0
    /\ pkgH.pc # "publishing"
    /\ feedLeft' = feedLeft - 1
    /\ clock' = clock + 1
    /\ UNCHANGED <<cve_cache, cveH, cve_hist, rawVars, call, graph, life>>
    /\ IF msg.json = "bad"
       THEN /\ pkgH' = [IdlePkg EXCEPT !.pc = "done", !.n = clock']
            /\ UNCHANGED <<pkg_cve_cache, etl_enriched, pkg_hist>>
       ELSE LET pkg_cve_data == [ host_id |-> msg.host_id, package |-> msg.package,
                                  candidates |-> msg.candidates, timestamp |-> clock' ]
                cache_key == CacheKey(msg.host_id, msg.package)
                run == PkgRun(pkg_cve_data, 1, cve_cache, {}, {})
            IN  /\ pkg_cve_cache' = OrderedPut(pkg_cve_cache, cache_key, pkg_cve_data)
                /\ pkg_hist' = [pkg_hist EXCEPT ![cache_key] = Append(@, clock')]
                /\ etl_enriched' =
                       IF pub # "ok" THEN etl_enriched
                       ELSE etl_enriched \o
                            [i \in DOMAIN run.emit |->
                                Published(run.emit[i], clock', cve_hist, pkg_hist')]
                /\ pkgH' = AfterPublish(
                       [ pc |-> run.pc, n |-> clock', msg |-> pkg_cve_data,
                         idx |-> run.idx, hits |-> run.hits, misses |-> run.misses,
                         lost |-> {} ], run.emit, pub)

HandlePkgCveMapping(msg) == PkgCveMapping(msg, "ok")

\* _handle_pkg_cve_mapping resumed after a publish, up to the next one,
\* which the bus answers with pub
PkgLoopResume(pub) ==
    /\ pkgH.pc = "publishing"
    /\ LET run == PkgRun(pkgH.msg, pkgH.idx, cve_cache, pkgH.hits, pkgH.misses)
       IN  /\ etl_enriched' =
                  IF pub # "ok" THEN etl_enriched
                  ELSE etl_enriched \o
                       [i \in DOMAIN run.emit |->
                           Published(run.emit[i], pkgH.n, cve_hist, pkg_hist)]
           /\ pkgH' = AfterPublish(
                  [pkgH EXCEPT !.pc = run.pc, !.idx = run.idx,
                               !.hits = run.hits, !.misses = run.misses],
                  run.emit, pub)
    /\ UNCHANGED <<cve_cache, pkg_cve_cache, cveH, feedLeft, clock, cve_hist, pkg_hist,
                   rawVars, call, graph, life>>

PkgResume == PkgLoopResume("ok")

---------------------------------------------------------------------------
(* The join engine on its own: the two feed subscriptions.                 *)

InitFeeds(n) ==
    /\ cve_cache = EmptyDict
    /\ pkg_cve_cache = <<>>
    /\ etl_enriched = <<>>
    /\ cveH = IdleCve
    /\ pkgH = IdlePkg
    /\ feedLeft = n
    /\ clock = 0
    /\ cve_hist = [i \in CveIds |-> <<>>]
    /\ pkg_hist = [k \in Keys |-> <<>>]

InitRawEvents(n) ==
    /\ raw = <<>>
    /\ semaphore = MaxInflight
    /\ rawLeft = n

InitJoin == InitFeeds(MaxFeedMsgs) /\ InitRawEvents(0) /\ call = NoCall /\ InitServing

NextJoin ==
    \/ \E msg \in CveUpdates : HandleCveUpdate(msg)
    \/ CveResume
    \/ \E msg \in PkgCveMappings : HandlePkgCveMapping(msg)
    \/ PkgResume

SpecJoin == InitJoin /\ [][NextJoin]_vars

---------------------------------------------------------------------------
(* Properties of the join engine.                                          *)

\* (host_id, package.name, cve_id, mapping timestamp) of a published record
JoinKey(e) ==
    <<e.record.host_id, e.record.package, e.record.cve_candidate.cve_id,
      e.record.original_timestamp>>

\* the publishes of join key k made while message n was being handled
EmittedDuring(k, n) ==
    { i \in DOMAIN etl_enriched :
        etl_enriched[i].during = n /\ JoinKey(etl_enriched[i]) = k }

\* the mapping cached under key k, as a sequence of at most one element
Cached(k) ==
    LET i == OrderedFind(pkg_cve_cache, k, 1) IN
    IF i = 0 THEN <<>> ELSE <<pkg_cve_cache[i].val>>

MappingKey(m) == CacheKey(m.host_id, m.package)

\* C1: at most one join record is ever published per (host_id,
\* package.name, cve_id, mapping timestamp), whatever arrives, a CVE id
\* delivered twice included.
C1_AtMostOncePerMappingVersion ==
    \A i, j \in DOMAIN etl_enriched :
        i # j => JoinKey(etl_enriched[i]) # JoinKey(etl_enriched[j])

\* C2: when the handling of a CVE update for X has ended, every mapping that
\* was retained when it began (and has not been replaced since) has had a
\* join record published, by this handling, for each of its candidates
\* that references X and whose record can be built: the walk skipped none.
C2_WalkCoversEveryRetainedMapping ==
    cveH.pc = "done" =>
        \A p \in DOMAIN cveH.retained :
            LET m == cveH.retained[p].val IN
            Cached(MappingKey(m)) = <<m>> =>
                \A c \in DOMAIN m.candidates :
                    ( /\ m.candidates[c].cve_id = cveH.cve_data.cve_id
                      /\ ~ScoreRaises(cveH.cve_data, m.candidates[c]) )
                    => EmittedDuring(<<m.host_id, m.package, cveH.cve_data.cve_id,
                                       m.timestamp>>, cveH.n) # {}

\* C3: when every CVE id and every (host_id, package) mapping has been
\* delivered at most once, no (mapping, candidate) pair is published twice,
\* whatever the interleaving of the two handlers at their publishes.
C3_NoDuplicateWhenDeliveredOnce ==
    ( /\ \A id \in CveIds : Len(cve_hist[id]) <= 1
      /\ \A k \in Keys : Len(pkg_hist[k]) <= 1 )
    => \A i, j \in DOMAIN etl_enriched :
           i < j => JoinKey(etl_enriched[j]) # JoinKey(etl_enriched[i])

\* C4: late CVE.  A candidate whose CVE was not cached when its mapping was
\* handled gets no join record from that handling; and when the first
\* descriptor of CVE-X has been handled, exactly one join record has been
\* published by that handling for each retained mapping's candidate
\* referencing CVE-X.
C4_LateCveJoinsExactlyOnce ==
    /\ pkgH.pc = "done" =>
           \A c \in pkgH.misses :
               EmittedDuring(<<pkgH.msg.host_id, pkgH.msg.package,
                               pkgH.msg.candidates[c].cve_id,
                               pkgH.msg.timestamp>>, pkgH.n) = {}
    /\ ( /\ cveH.pc = "done"
         /\ cveH.cve_data.cve_id \in CveIds
         /\ Len(cve_hist[cveH.cve_data.cve_id]) = 1 ) =>
           \A p \in DOMAIN cveH.retained :
               LET m == cveH.retained[p].val IN
               \A c \in DOMAIN m.candidates :
                   m.candidates[c].cve_id = cveH.cve_data.cve_id
                   => Cardinality(EmittedDuring(<<m.host_id, m.package,
                                                  cveH.cve_data.cve_id,
                                                  m.timestamp>>, cveH.n)) = 1

\* C5: when the handling of a mapping has ended, exactly one join record,
\* carrying the cached descriptor, has been published by it for every
\* candidate whose cve_id was in the CVE cache, whatever the candidate's
\* cvss_score and severity.
C5_EveryCachedCandidateJoinedOnce ==
    pkgH.pc = "done" =>
        \A c \in pkgH.hits :
            LET k == <<pkgH.msg.host_id, pkgH.msg.package,
                       pkgH.msg.candidates[c].cve_id, pkgH.msg.timestamp>>
            IN  /\ Cardinality(EmittedDuring(k, pkgH.n)) = 1
                /\ \A i \in EmittedDuring(k, pkgH.n) :
                       etl_enriched[i].record.cve_data.cve_id
                           = pkgH.msg.candidates[c].cve_id

\* C6: neither cache ever holds more entries than the maximum cache size.
C6_CachesBounded ==
    /\ Cardinality(DOMAIN cve_cache) <= MaxCacheSize
    /\ Len(pkg_cve_cache) <= MaxCacheSize

\* C7: both caches are last-write-wins, and a join record carries the
\* latest descriptor and the latest mapping handled for its keys at the
\* time it is published.
C7_LastWriteWins ==
    /\ \A id \in CveIds :
           IF cve_hist[id] = <<>>
           THEN id \notin DOMAIN cve_cache
           ELSE /\ id \in DOMAIN cve_cache
                /\ cve_cache[id].cve_id = id
                /\ cve_cache[id].last_modified = Last(cve_hist[id])
    /\ \A k \in Keys :
           IF pkg_hist[k] = <<>>
           THEN Cached(k) = <<>>
           ELSE /\ Cached(k) # <<>>
                /\ MappingKey(Cached(k)[1]) = k
                /\ Cached(k)[1].timestamp = Last(pkg_hist[k])
    /\ \A i \in DOMAIN etl_enriched :
           /\ etl_enriched[i].record.cve_data.last_modified = etl_enriched[i].latest_cve
           /\ etl_enriched[i].record.original_timestamp = etl_enriched[i].latest_pkg

\* a record published from a descriptor and a mapping that each replaced an
\* earlier one
C7_Witness ==
    \E i \in DOMAIN etl_enriched :
        LET r == etl_enriched[i].record IN
        /\ Len(cve_hist[r.cve_data.cve_id]) >= 2
        /\ Len(pkg_hist[CacheKey(r.host_id, r.package)]) >= 2
        /\ r.cve_data.last_modified = Last(cve_hist[r.cve_data.cve_id])
        /\ r.original_timestamp = Last(pkg_hist[CacheKey(r.host_id, r.package)])
        /\ cve_cache[r.cve_data.cve_id] = r.cve_data

---------------------------------------------------------------------------
(* events.raw: _process_message and _handle_message.                       *)

\* Bodies of events.raw messages.
RawBody(json, id, type, timestamp, payload) ==
    [ json |-> json, id |-> id, type |-> type, source |-> JStr("agent"),
      timestamp |-> timestamp, host_id |-> JStr("h1"), payload |-> payload ]

\* A string is held as what lies between its dots, each part a sequence of
\* characters: "10.1.2.3" is << <<"1","0">>, <<"1">>, <<"2">>, <<"3">> >>.
IpStr(parts) == [t |-> "ipstr", parts |-> parts]

\* Python truthiness of a dst_ip
TruthyIp(ip) ==
    CASE ip.t = "null" -> FALSE
      [] ip.t = "num" -> ip.v # 0
      [] ip.t = "ipstr" -> ip.parts # << <<>> >>
      [] OTHER -> TRUE

\* The payload of an event is a text.  B64(x) is the base64 encoding of x.
\* JsonText(v, b64) is the text of the JSON value v and JunkText(b64) a
\* text that is no JSON; base64.b64decode does not validate, so it makes
\* of such a text what b64 says: <<>> when it raises (incorrect padding),
\* else the bytes it returns.  Garbage is bytes that are no UTF-8 text.
B64(x) == [of |-> x, t |-> "b64"]

JsonText(v, b64) == [b64 |-> b64, t |-> "json", v |-> v]

JunkText(b64) == [b64 |-> b64, t |-> "junk"]

Garbage == [t |-> "bytes"]

\* the args of a connect event: {"dst_ip": "8.8.8.8", "dst_port": 53}
ConnectArgsDict ==
    DictPut(DictPut(EmptyDict, "dst_port", JNum(53)),
            "dst_ip", IpStr(<< <<"8">>, <<"8">>, <<"8">>, <<"8">> >>))

\* the payload as the ingest service sends it: the JSON of the args,
\* base64-encoded twice
ConnectPayload == B64(B64(JsonText(ConnectArgsDict, <<>>)))

RawBodies ==
    { RawBody("bad", JNull, JNull, JNull, JNull),        \* not JSON
      RawBody("notdict", JNull, JNull, JNull, JNull),    \* JSON, but no object
      RawBody("ok", JNull, JStr("exec"), JNum(1000), JNull),
      RawBody("ok", JStr("e1"), JStr("exec"), JNum(1000), JNull),
      RawBody("ok", JStr("e1"), JStr("exec"), JNum(0), JNull),   \* the epoch
      RawBody("ok", JStr("e1"), JStr("exec"), JStr("yesterday"), JNull),
      RawBody("ok", JStr("e1"), JStr("connect"), JStr("1970-01-01T00:00:01Z"),
              ConnectPayload) }

\* Python truthiness of a JSON value
Truthy(v) ==
    CASE v.t = "null" -> FALSE
      [] v.t = "num" -> v.v # 0
      [] v.t = "str" -> v.v # ""
      [] OTHER -> TRUE

\* datetime.fromisoformat(s.replace('Z', '+00:00')) in ms, <<>> when it raises
IsoToMs(s) == IF s = "1970-01-01T00:00:01Z" THEN <<1000>> ELSE <<>>

\* lines 231-236: ts_ms, <<>> when the conversion raises
TsMs(timestamp) ==
    CASE timestamp.t = "str" -> IsoToMs(timestamp.v)
      [] timestamp.t = "num" -> <<timestamp.v>>
      [] OTHER -> <<>>

\* lines 192-223: what parsing and validation make of a body
ParseOutcome(body) ==
    CASE body.json = "bad" -> "decode_error"
      [] body.json = "notdict" -> "not_an_object"
      [] ~(Truthy(body.id) /\ Truthy(body.type) /\ Truthy(body.source)
              /\ Truthy(body.timestamp)) -> "missing_field"
      [] OTHER -> "valid"

\* a handler as the bus starts it: waiting for a permit of the semaphore
NewHandler(body) ==
    [ body |-> body, pc |-> "acquire", ts_ms |-> <<>>, runs |-> 0, wrote |-> FALSE,
      upserted |-> FALSE, published |-> FALSE, acks |-> 0, timed_out |-> FALSE,
      \* history: the stages the handler has entered, whether write_raw_event
      \* raised, and what the bus answers to successive publish attempts
      \* and the args handed to enrich_event
      reached |-> {}, write_failed |-> FALSE, bus |-> <<>>, args |-> <<>> ]

\* lines 197-200: orjson cannot parse the body.  msg.ack() is awaited
\* outside any inner try: when it raises, the outer except clause (line
\* 362) acknowledges again.
OnDecodeErrorNoAck(h, ackOk) == [h EXCEPT !.pc = "done"]

OnDecodeError(h, ackOk) ==
    [h EXCEPT !.pc = "done", !.acks = IF ackOk THEN @ + 1 ELSE @ + 2]

\* lines 190-225: parse, extract and validate
HandleParse(h, ackOk) ==
    LET out == ParseOutcome(h.body)
        h1 == [h EXCEPT !.runs = @ + 1]
    IN  CASE out = "decode_error" -> OnDecodeError(h1, ackOk)
          \* event_data.get raises AttributeError: outer except, ack, return
          [] out = "not_an_object" -> [h1 EXCEPT !.pc = "done", !.acks = @ + 1]
          \* warn, ack, return
          [] out = "missing_field" ->
                [h1 EXCEPT !.pc = "done", !.acks = @ + 1, !.reached = @ \cup {"dropped"}]
          [] OTHER -> [h1 EXCEPT !.pc = "persist"]

\* the handler gives the event up when the raw write raises
HandlePersistAbortOnFailure(h, what) ==
    IF TsMs(h.body.timestamp) # <<>> /\ what = "raise"
    THEN [h EXCEPT !.ts_ms = TsMs(h.body.timestamp), !.write_failed = TRUE,
                   !.reached = @ \cup {"persist", "write"}, !.acks = @ + 1,
                   !.pc = "done"]
    ELSE [h EXCEPT !.pc = "project", !.reached = @ \cup {"persist"}]

\* lines 227-247: normalise the timestamp and await write_raw_event; what
\* is "ok", "raise" (swallowed) or "hang" (the await does not return)
HandlePersist(h, what) ==
    LET ts == TsMs(h.body.timestamp)
        h1 == [h EXCEPT !.reached = @ \cup {"persist"}]
        h2 == [h1 EXCEPT !.ts_ms = ts, !.reached = @ \cup {"write"}]
    IN  IF ts = <<>>
        THEN [h1 EXCEPT !.pc = "project"]
        ELSE CASE what = "ok" -> [h2 EXCEPT !.wrote = TRUE, !.pc = "project"]
               [] what = "raise" -> [h2 EXCEPT !.write_failed = TRUE, !.pc = "project"]
               [] OTHER -> [h2 EXCEPT !.pc = "persist_hung"]

\* base64.b64decode(x), <<>> when it raises (also x.decode('utf-8') of
\* bytes that are no text)
b64decode(x) ==
    CASE x.t = "b64" -> <<x.of>>
      [] x.t \in {"json", "junk"} -> x.b64
      [] OTHER -> <<>>

\* json.loads(x), <<>> when it raises
json_loads(x) == IF x.t = "json" THEN <<x.v>> ELSE <<>>

\* a decoder that never tries the single decode
decode_args_double_only(payload) ==
    IF ~Truthy(payload) THEN [args |-> EmptyDict, path |-> "none"]
    ELSE LET outer == b64decode(payload)
             inner == IF outer = <<>> THEN <<>> ELSE b64decode(outer[1])
             double == IF inner = <<>> THEN <<>> ELSE json_loads(inner[1])
         IN  IF double # <<>> THEN [args |-> double[1], path |-> "double"]
             ELSE [args |-> EmptyDict, path |-> "empty"]

\* lines 256-273 and 309-324: args = {}; with a payload, base64-decode it,
\* then try base64 and JSON once more, on any failure of these two the
\* JSON of the first decode; any other failure leaves args = {}
decode_args(payload) ==
    IF ~Truthy(payload) THEN [args |-> EmptyDict, path |-> "none"]
    ELSE LET outer == b64decode(payload)
             inner == IF outer = <<>> THEN <<>> ELSE b64decode(outer[1])
             double == IF inner = <<>> THEN <<>> ELSE json_loads(inner[1])
             single == IF outer = <<>> THEN <<>> ELSE json_loads(outer[1])
         IN  IF double # <<>> THEN [args |-> double[1], path |-> "double"]
             ELSE IF single # <<>> THEN [args |-> single[1], path |-> "single"]
             ELSE [args |-> EmptyDict, path |-> "empty"]

\* line 255: the log line slices the payload before the payload is
\* tested; None and a number raise, and the except clause of line 289
\* ends the projection
Sliceable(payload) == payload.t \notin {"null", "num"}

\* lines 255-273: the args the projection decodes from the payload
PayloadArgs(payload) ==
    IF Sliceable(payload) /\ decode_args(payload).path \in {"double", "single"}
    THEN <<decode_args(payload).args>>
    ELSE <<>>

\* lines 275-279: dst_ip = args.get("dst_ip"); if dst_ip:
HasDstIp(args) == "dst_ip" \in DOMAIN args /\ TruthyIp(args["dst_ip"])

\* lines 249-292: a connect event with a dst_ip upserts a communication
\* edge; upsert_comm_edge runs the driver synchronously
HandleProject(h, what) ==
    IF /\ h.body.type = JStr("connect")
       /\ PayloadArgs(h.body.payload) # <<>>
       /\ HasDstIp(PayloadArgs(h.body.payload)[1])
    THEN [h EXCEPT !.upserted = (what = "ok"), !.pc = "enrich",
                   !.reached = @ \cup {"project"}]
    ELSE [h EXCEPT !.pc = "enrich"]

\* What the bus answers to the successive attempts of one publish.
PublishOutcomes ==
    { <<"ok">>, <<"raise", "ok">>, <<"raise", "raise", "raise">>, <<"hang">> }

\* lines 337-346 and 172-181: self.nats_client.publish is awaited once
nats_publish(attempts) == attempts[1]

\* lines 294-352: enrich and publish to events.enriched; the x-timestamp
\* header reads ts_ms, which is unbound when the conversion raised
HandleEnrich(h, attempts) ==
    LET h1 == [h EXCEPT !.reached = @ \cup {"enrich"},
                        !.args = <<decode_args(h.body.payload).args>>]
        h2 == [h1 EXCEPT !.reached = @ \cup {"publish"}, !.bus = attempts]
        what == nats_publish(attempts)
    IN  IF h.ts_ms = <<>>
        THEN [h1 EXCEPT !.pc = "ack"]
        ELSE CASE what = "ok" -> [h2 EXCEPT !.published = TRUE, !.pc = "ack"]
               [] what = "raise" -> [h2 EXCEPT !.pc = "ack"]
               [] OTHER -> [h2 EXCEPT !.pc = "publish_hung"]

\* lines 354-360: the final acknowledgement; an exception of msg.ack() is
\* swallowed, and the await may not return before the deadline
HandleAck(h, what) ==
    IF what = "hang"
    THEN [h EXCEPT !.acks = @ + 1, !.pc = "ack_hung"]
    ELSE [h EXCEPT !.acks = @ + 1, !.pc = "done"]

\* the handler is cancelled and nothing acknowledges the message
OnTimeoutNoAck(h) == [h EXCEPT !.timed_out = TRUE, !.pc = "done"]

\* lines 96-99: wait_for cancels the handler; the message is acknowledged
OnTimeout(h) == [h EXCEPT !.timed_out = TRUE, !.acks = @ + 1, !.pc = "done"]

\* the handlers that hold a permit of the semaphore
InSemaphore(h) == h.pc \notin {"acquire", "done"}

\* the bus invokes _process_message; the model lets it start a handler
\* while earlier ones are still running, so the semaphore is what bounds them
RawDeliver(body) ==
    /\ rawLeft > 0
    /\ rawLeft' = rawLeft - 1
    /\ raw' = Append(raw, NewHandler(body))
    /\ UNCHANGED <<semaphore, joinVars, call, graph, life>>

\* line 89: async with self.semaphore
Acquire(i) ==
    /\ raw[i].pc = "acquire"
    /\ semaphore > 0
    /\ semaphore' = semaphore - 1
    /\ raw' = [raw EXCEPT ![i].pc = "parse"]
    /\ UNCHANGED <<rawLeft, joinVars, call, graph, life>>

\* a handler goes from h to h2; the permit is released when it ends
Advance(i, h2) ==
    /\ raw' = [raw EXCEPT ![i] = h2]
    /\ semaphore' = IF h2.pc = "done" THEN semaphore + 1 ELSE semaphore
    /\ UNCHANGED <<rawLeft, joinVars, call, graph, life>>

Parse(i) ==
    /\ raw[i].pc = "parse"
    /\ \E ackOk \in BOOLEAN : Advance(i, HandleParse(raw[i], ackOk))

PersistRaw(i) ==
    /\ raw[i].pc = "persist"
    /\ \E what \in {"ok", "raise", "hang"} : Advance(i, HandlePersist(raw[i], what))

ProjectGraph(i) ==
    /\ raw[i].pc = "project"
    /\ \E what \in {"ok", "raise"} : Advance(i, HandleProject(raw[i], what))

EnrichPublish(i) ==
    /\ raw[i].pc = "enrich"
    /\ \E attempts \in PublishOutcomes : Advance(i, HandleEnrich(raw[i], attempts))

Ack(i) ==
    /\ raw[i].pc = "ack"
    /\ \E what \in {"ok", "raise", "hang"} : Advance(i, HandleAck(raw[i], what))

\* the 30 s deadline expires while the handler is suspended in an await
Timeout(i) ==
    /\ raw[i].pc \in {"persist_hung", "publish_hung", "ack_hung"}
    /\ Advance(i, OnTimeout(raw[i]))

RawProgress ==
    \E i \in DOMAIN raw :
        \/ Acquire(i)
        \/ Parse(i)
        \/ PersistRaw(i)
        \/ ProjectGraph(i)
        \/ EnrichPublish(i)
        \/ Ack(i)
        \/ Timeout(i)

NextRaw ==
    \/ \E body \in RawBodies : RawDeliver(body)
    \/ RawProgress

InitRaw == InitFeeds(0) /\ InitRawEvents(MaxRawMsgs) /\ call = NoCall /\ InitServing

SpecRaw == InitRaw /\ [][NextRaw]_vars

\* The event loop runs every task that is ready, and the deadline timer
\* fires.
FairSpecRaw == SpecRaw /\ WF_vars(RawProgress)

---------------------------------------------------------------------------
(* Properties of the raw-event handler.                                    *)

\* C8: every message received on events.raw eventually has an
\* acknowledgement attempted, on every path.
C8_EveryRawMessageAcked ==
    \A i \in 1..MaxRawMsgs :
        (Len(raw) >= i) ~> (Len(raw) >= i /\ raw[i].pc = "done" /\ raw[i].acks >= 1)

\* a message whose handler was cancelled by the deadline and was acknowledged
C8_Witness ==
    \E i \in DOMAIN raw :
        raw[i].timed_out /\ raw[i].pc = "done" /\ raw[i].acks = 1

\* C10: a raw message that is not valid JSON is acknowledged and dropped:
\* nothing is written, upserted or published for it, and its handler runs
\* once.
C10_MalformedJsonDropped ==
    \A i \in DOMAIN raw :
        raw[i].body.json = "bad" =>
            /\ ~raw[i].wrote /\ ~raw[i].upserted /\ ~raw[i].published
            /\ raw[i].runs <= 1
            /\ raw[i].pc \in {"acquire", "parse", "done"}
            /\ raw[i].pc = "done" => raw[i].acks >= 1

C10_Witness ==
    \E i \in DOMAIN raw :
        raw[i].body.json = "bad" /\ raw[i].pc = "done" /\ raw[i].acks >= 1

\* the handlers that are past parsing and validation
Parsed(h) == h.pc \notin {"acquire", "parse"}

\* one of the four required top-level fields is absent (or null)
MissingField(body) ==
    JNull \in {body.id, body.type, body.source, body.timestamp}

\* C11: a raw event is dropped at validation exactly when one of id, type,
\* source, timestamp is missing; whatever the values of the four fields,
\* an event that carries them all goes on to the persist stage.
C11_DroppedIffFieldMissing ==
    \A i \in DOMAIN raw :
        (raw[i].body.json = "ok" /\ Parsed(raw[i])) =>
            /\ ("dropped" \in raw[i].reached) <=> MissingField(raw[i].body)
            /\ ("persist" \in raw[i].reached) <=> ~MissingField(raw[i].body)

\* C12: when write_raw_event raises for a validated event, the handler
\* still runs the graph projection (connect events), the enrichment and
\* the publish, and acknowledges the message.
C12_WriteFailureSwallowed ==
    \A i \in DOMAIN raw :
        raw[i].write_failed =>
            /\ raw[i].pc \notin {"persist", "persist_hung"}
            /\ raw[i].pc \in {"ack", "ack_hung", "publish_hung", "done"} =>
                   /\ {"enrich", "publish"} \subseteq raw[i].reached
                   /\ ( /\ raw[i].body.type = JStr("connect")
                        /\ PayloadArgs(raw[i].body.payload) # <<>> )
                      => "project" \in raw[i].reached
            /\ raw[i].pc = "done" => raw[i].acks >= 1

\* a connect event whose raw write failed, and which was nevertheless
\* projected, published and acknowledged
C12_Witness ==
    \E i \in DOMAIN raw :
        /\ raw[i].write_failed /\ raw[i].pc = "done" /\ ~raw[i].timed_out
        /\ raw[i].upserted /\ raw[i].published /\ raw[i].acks >= 1

\* C13: an event whose timestamp cannot be normalised is still enriched,
\* published to events.enriched and acknowledged.
C13_NormalizationFailureDoesNotAbort ==
    \A i \in DOMAIN raw :
        ( /\ raw[i].pc = "done"
          /\ "persist" \in raw[i].reached
          /\ TsMs(raw[i].body.timestamp) = <<>> )
        => /\ {"enrich", "publish"} \subseteq raw[i].reached
           /\ raw[i].acks >= 1

\* stop_after_attempt(3): the attempts the publisher of publish.py makes
PublishAttempts == 3

\* the bus accepts one of the first PublishAttempts attempts of the publish
SucceedsWithinAttempts(attempts) ==
    \E k \in 1..PublishAttempts :
        /\ k <= Len(attempts)
        /\ attempts[k] = "ok"
        /\ \A j \in 1..(k - 1) : attempts[j] = "raise"

\* C14: a publish that fails on its first attempt is retried, up to 3
\* attempts in all; when one of them succeeds the record is published.
C14_PublishRetried ==
    \A i \in DOMAIN raw :
        ( /\ "publish" \in raw[i].reached
          /\ raw[i].pc \in {"ack", "ack_hung", "done"}
          /\ SucceedsWithinAttempts(raw[i].bus) )
        => raw[i].published

---------------------------------------------------------------------------
(* The service: the three subscriptions of start() side by side.           *)

Subjects == {"events.raw", "feeds.cve.updates", "feeds.pkg.cve"}

\* lines 373-390: the callback start() subscribes to each subject
Callback(subject) ==
    CASE subject = "events.raw" -> "_process_message"
      [] subject = "feeds.cve.updates" -> "_handle_cve_update"
      [] OTHER -> "_handle_pkg_cve_mapping"

\* lines 92-95: only _process_message wraps its handler in wait_for
UnderDeadline(cb) == cb = "_process_message"

\* the handlers of a subject that have started and not yet returned
InProgress(subject) ==
    CASE subject = "events.raw" -> {i \in DOMAIN raw : InSemaphore(raw[i])}
      [] subject = "feeds.cve.updates" -> {i \in {1} : cveH.pc = "publishing"}
      [] OTHER -> {i \in {1} : pkgH.pc = "publishing"}

Init == InitFeeds(DispatchFeedMsgs) /\ InitRawEvents(DispatchRawMsgs) /\ call = NoCall /\ InitServing

Next == NextJoin \/ NextRaw

Spec == Init /\ [][Next]_vars

\* C9: over all three subjects, at most max_inflight handlers are in
\* progress at once, and each handler in progress runs under the
\* per-message deadline.
C9_InflightBoundedAndDeadlined ==
    /\ Cardinality(UNION {{<<s, i>> : i \in InProgress(s)} : s \in Subjects}) <= MaxInflight
    /\ \A s \in Subjects : InProgress(s) # {} => UnderDeadline(Callback(s))

---------------------------------------------------------------------------
(* writers/timescale.py and writers/neo4j.py: the retried store writes.    *)

\* stop_after_attempt(3)
StoreAttempts == 3

\* retry_if_exception_type(...) of the two writers
TimescaleRetryable == {"OperationalError", "InterfaceError"}
Neo4jRetryable == {"ServiceUnavailable", "TransientError"}

\* What the store does at the successive attempts of one call: "ok", or
\* the class of the exception it raises.
TimescaleOutcomes ==
    [1..StoreAttempts -> {"ok", "Exception"} \cup TimescaleRetryable]
Neo4jOutcomes ==
    [1..StoreAttempts -> {"ok", "Exception"} \cup Neo4jRetryable]

\* a single attempt, whatever it raises
RetryingNever(outcomes, retryable, n) ==
    [attempts |-> n, returns |-> outcomes[n] = "ok"]

\* @retry(stop, wait, retry): attempt n of the decorated function and the
\* attempts after it.  returns is TRUE when the call returns True, FALSE
\* when it raises.
RECURSIVE Retrying(_, _, _)
Retrying(outcomes, retryable, n) ==
    IF outcomes[n] = "ok"
    THEN [attempts |-> n, returns |-> TRUE]
    ELSE IF outcomes[n] \in retryable /\ n < StoreAttempts
         THEN Retrying(outcomes, retryable, n + 1)
         ELSE [attempts |-> n, returns |-> FALSE]

write_raw_event(outcomes) == Retrying(outcomes, TimescaleRetryable, 1)

timescale_write_event(outcomes) == Retrying(outcomes, TimescaleRetryable, 1)

upsert_comm_edge(outcomes) == Retrying(outcomes, Neo4jRetryable, 1)

\* Neo4jWriter.write_event: for a connect event an attempt whose own
\* statements succeed goes on to upsert_comm_edge, whose RetryError (after
\* its own attempts) is not one of the retried classes.
neo4j_write_event(connect, outcomes, edge) ==
    Retrying([n \in 1..StoreAttempts |->
                 IF outcomes[n] = "ok" /\ connect /\ ~upsert_comm_edge(edge).returns
                 THEN "RetryError" ELSE outcomes[n]],
             Neo4jRetryable, 1)

StoreCall(fn, writer, retryable, connect, outcomes, edge, result) ==
    /\ call' = [ connect |-> connect, edge |-> edge, fn |-> fn,
                 outcomes |-> outcomes, result |-> result,
                 retryable |-> retryable, writer |-> writer ]
    /\ UNCHANGED <<joinVars, rawVars, graph, life>>

CallWriteRawEvent ==
    \E outcomes \in TimescaleOutcomes :
        StoreCall("write_raw_event", "timescale", TimescaleRetryable, FALSE,
                  outcomes, outcomes, write_raw_event(outcomes))

CallTimescaleWriteEvent ==
    \E outcomes \in TimescaleOutcomes :
        StoreCall("write_event", "timescale", TimescaleRetryable, FALSE,
                  outcomes, outcomes, timescale_write_event(outcomes))

CallUpsertCommEdge ==
    \E outcomes \in Neo4jOutcomes :
        StoreCall("upsert_comm_edge", "neo4j", Neo4jRetryable, FALSE,
                  outcomes, outcomes, upsert_comm_edge(outcomes))

\* the edge upsert of a connect event fails on a transient error until its
\* attempt number `good`
CallNeo4jWriteEvent ==
    \E outcomes \in Neo4jOutcomes, connect \in BOOLEAN, good \in 1..(StoreAttempts + 1) :
        LET edge == [n \in 1..StoreAttempts |->
                        IF n < good THEN "TransientError" ELSE "ok"]
        IN  StoreCall("write_event", "neo4j", Neo4jRetryable, connect,
                      outcomes, edge, neo4j_write_event(connect, outcomes, edge))

InitWriters == InitFeeds(0) /\ InitRawEvents(0) /\ call = NoCall /\ InitServing

NextWriters ==
    \/ CallWriteRawEvent
    \/ CallTimescaleWriteEvent
    \/ CallUpsertCommEdge
    \/ CallNeo4jWriteEvent

SpecWriters == InitWriters /\ [][NextWriters]_vars

\* a store write has been called
IsStoreCall == call.fn \in {"write_raw_event", "write_event", "upsert_comm_edge"}

\* the number of leading attempts of the call that hit a retried error
RECURSIVE TransientPrefix(_, _, _)
TransientPrefix(outcomes, retryable, n) ==
    IF n > StoreAttempts \/ outcomes[n] \notin retryable
    THEN n - 1
    ELSE TransientPrefix(outcomes, retryable, n + 1)

C16_AnyFirstFailureRetried ==
    ( /\ IsStoreCall
      /\ call.fn = "write_event"
      /\ ~call.connect
      /\ call.outcomes[1] # "ok"
      /\ call.outcomes[2] = "ok" )
    => call.result.returns

---------------------------------------------------------------------------
(* enrich.py: enrich_event.  Python objects live on a heap: a dict is a    *)
(* function from keys to values, and a value that is itself a dict is a    *)
(* reference to the heap cell that holds it.                               *)

\* the longest dst_ip of the model, in dot-separated parts
MaxOctets == 5

Ref(a) == [t |-> "ref", v |-> a]

OctetParts ==
    { <<"7">>, <<"2", "5", "5">>, <<"2", "5", "6">>, <<"a">>, <<>> }

\* the values of args.dst_ip: strings of 1..MaxOctets parts, an IPv6
\* literal, an integer and null
DstIps ==
    { IpStr(p) : p \in UNION { [1..n -> OctetParts] : n \in 1..MaxOctets } }
        \cup { IpStr(<< <<":", ":", "1">> >>), JNum(5), JNull }

Digits == {"0", "1", "2", "3", "4", "5", "6", "7", "8", "9"}

DigitValue(c) ==
    CASE c = "0" -> 0 [] c = "1" -> 1 [] c = "2" -> 2 [] c = "3" -> 3
      [] c = "4" -> 4 [] c = "5" -> 5 [] c = "6" -> 6 [] c = "7" -> 7
      [] c = "8" -> 8 [] OTHER -> 9

\* int(octet_str, 10) of a string of digits
RECURSIVE OctetValue(_)
OctetValue(part) ==
    IF part = <<>> THEN 0
    ELSE OctetValue(SubSeq(part, 1, Len(part) - 1)) * 10 + DigitValue(part[Len(part)])

\* ipaddress.IPv4Address._parse_octet: decimal digits only, at most three,
\* no leading zero, at most 255
ParseOctetOk(part) ==
    /\ part # <<>>
    /\ \A i \in DOMAIN part : part[i] \in Digits
    /\ Len(part) <= 3
    /\ Len(part) > 1 => part[1] # "0"
    /\ OctetValue(part) <= 255

\* accepts any octet of one to three digits
is_ipv4_address_lax(ip) ==
    /\ ip.t = "ipstr"
    /\ Len(ip.parts) = 4
    /\ \A i \in 1..4 : /\ ip.parts[i] # <<>>
                       /\ Len(ip.parts[i]) <= 3
                       /\ \A j \in DOMAIN ip.parts[i] : ip.parts[i][j] \in Digits

\* lines 13-27: ipaddress.IPv4Address(ip_str) does not raise.  An integer
\* is an address when it fits 32 bits; a string when it has four octets.
is_ipv4_address(ip) ==
    CASE ip.t = "num" -> ip.v >= 0
      [] ip.t = "ipstr" -> /\ Len(ip.parts) = 4
                           /\ \A i \in 1..4 : ParseOctetOk(ip.parts[i])
      [] OTHER -> FALSE

\* lines 30-46: ip_str.split('.')[-1], <<>> for None (an integer has no
\* split: AttributeError)
extract_last_octet(ip) ==
    IF ~is_ipv4_address(ip) THEN <<>>
    ELSE IF ip.t = "ipstr" THEN <<ip.parts[Len(ip.parts)]>>
    ELSE <<>>

\* f"host-{last_octet}.local"
HostLocal(octet) == [t |-> "host_local", octet |-> octet]

\* lines 72-86: the value stored under context["rdns"]
RdnsValue(heap, fake_rdns) ==
    IF ~fake_rdns THEN JNull
    ELSE LET args == IF "args" \in DOMAIN heap["ev"]
                     THEN heap[heap["ev"]["args"].v] ELSE EmptyDict
         IN  IF "dst_ip" \notin DOMAIN args THEN JNull
             ELSE IF TruthyIp(args["dst_ip"]) /\ is_ipv4_address(args["dst_ip"])
                  THEN IF extract_last_octet(args["dst_ip"]) # <<>>
                       THEN HostLocal(extract_last_octet(args["dst_ip"])[1])
                       ELSE JNull
                  ELSE JNull

\* the rdns entry is left out when there is nothing to put in it
SetItemUnlessNull(heap, a, key, value) ==
    IF value = JNull THEN heap ELSE [heap EXCEPT ![a] = DictPut(heap[a], key, value)]

\* heap[a][key] = value
SetItem(heap, a, key, value) == [heap EXCEPT ![a] = DictPut(heap[a], key, value)]

\* lines 49-88: the heap after enrich_event(ev, env, fake_rdns); the dict
\* returned is the cell "enriched"
enrich_event(heap, env, fake_rdns) ==
    LET \* enriched = ev.copy(): a new dict with the values of ev, the
        \* references to nested dicts included
        h1 == DictPut(heap, "enriched", heap["ev"])
        \* if "context" not in enriched: enriched["context"] = {}
        h2 == IF "context" \in DOMAIN h1["enriched"] THEN h1
              ELSE SetItem(DictPut(h1, "new_context", EmptyDict),
                           "enriched", "context", Ref("new_context"))
        c == h2["enriched"]["context"].v
        h3 == SetItem(h2, c, "env", JStr(env))
    IN  SetItem(h3, c, "rdns", RdnsValue(heap, fake_rdns))

\* the args of the events: none, or a dict with or without dst_ip
ArgsOfEvents ==
    { <<>>, <<EmptyDict>> }
        \cup { <<DictPut(DictPut(EmptyDict, "dst_port", JNum(80)), "dst_ip", ip)>>
                 : ip \in DstIps }

\* the context an event may already carry: none, an empty one, or one with
\* entries of its own
ContextsOfEvents ==
    { <<>>, <<EmptyDict>>,
      <<DictPut(DictPut(EmptyDict, "trace", JStr("t1")), "env", JStr("old"))>> }

Envs == {"dev", "prod"}

\* the heap that holds an event ev with the given args and context
EventHeap(args, context) ==
    LET ev0 == DictPut(DictPut(EmptyDict, "id", JStr("e1")), "type", JStr("connect"))
        ev1 == IF args = <<>> THEN ev0 ELSE DictPut(ev0, "args", Ref("args"))
        ev2 == IF context = <<>> THEN ev1 ELSE DictPut(ev1, "context", Ref("context"))
        h0 == DictPut(EmptyDict, "ev", ev2)
        h1 == IF args = <<>> THEN h0 ELSE DictPut(h0, "args", args[1])
    IN  IF context = <<>> THEN h1 ELSE DictPut(h1, "context", context[1])

\* the value held at address a, nested dicts followed
RECURSIVE Deref(_, _)
Deref(heap, a) ==
    [k \in DOMAIN heap[a] |->
        IF heap[a][k].t = "ref" THEN Deref(heap, heap[a][k].v) ELSE heap[a][k]]

\* one call of enrich_event, on a heap of its own
CallEnrichEvent ==
    /\ call = NoCall
    /\ \E args \in ArgsOfEvents, context \in ContextsOfEvents,
          env \in Envs, fake_rdns \in BOOLEAN :
           call' = [ after |-> enrich_event(EventHeap(args, context), env, fake_rdns),
                     before |-> EventHeap(args, context),
                     env |-> env, fake_rdns |-> fake_rdns, fn |-> "enrich_event" ]
    /\ UNCHANGED <<joinVars, rawVars, graph, life>>

InitEnrich == InitFeeds(0) /\ InitRawEvents(0) /\ call = NoCall /\ InitServing

NextEnrich == CallEnrichEvent

SpecEnrich == InitEnrich /\ [][NextEnrich]_vars

IsEnrichCall == call.fn = "enrich_event"

\* the event passed in, the event returned, and the event passed in as it
\* is after the call
EventIn == Deref(call.before, "ev")
EventOut == Deref(call.after, "enriched")
EventInAfter == Deref(call.after, "ev")

\* the context the event passed in carried ({} when it had none)
ContextIn == IF "context" \in DOMAIN EventIn THEN EventIn["context"] ELSE EmptyDict

C18_InputNotMutated ==
    IsEnrichCall => EventInAfter = EventIn

\* the decimal numeral of n < 1000, as a sequence of characters
DigitChar(d) ==
    CASE d = 0 -> "0" [] d = 1 -> "1" [] d = 2 -> "2" [] d = 3 -> "3"
      [] d = 4 -> "4" [] d = 5 -> "5" [] d = 6 -> "6" [] d = 7 -> "7"
      [] d = 8 -> "8" [] OTHER -> "9"

Numeral(n) ==
    IF n < 10 THEN <<DigitChar(n)>>
    ELSE IF n < 100 THEN <<DigitChar(n \div 10), DigitChar(n % 10)>>
    ELSE <<DigitChar(n \div 100), DigitChar((n \div 10) % 10), DigitChar(n % 10)>>

\* a dotted quad: four numerals of 0..255 between three dots
StrictDottedQuad(ip) ==
    /\ ip.t = "ipstr"
    /\ Len(ip.parts) = 4
    /\ \A i \in 1..4 : \E n \in 0..255 : ip.parts[i] = Numeral(n)

\* C19: context.rdns is "host-<last octet of args.dst_ip>.local" exactly
\* when fake_rdns is true and args.dst_ip is a strict dotted-quad IPv4
\* literal, and null in every other case.
C19_RdnsOnlyForDottedQuad ==
    IsEnrichCall =>
        LET args == IF "args" \in DOMAIN EventIn THEN EventIn["args"] ELSE EmptyDict
            quad == /\ call.fake_rdns
                    /\ "dst_ip" \in DOMAIN args
                    /\ StrictDottedQuad(args["dst_ip"])
        IN  EventOut["context"]["rdns"] =
                IF quad THEN HostLocal(args["dst_ip"].parts[4]) ELSE JNull

\* the rdns of 7.255.7.255
C19_Witness ==
    /\ IsEnrichCall
    /\ EventOut["context"]["rdns"] = HostLocal(<<"2", "5", "5">>)
    /\ EventIn["args"]["dst_ip"].parts[1] = <<"7">>

---------------------------------------------------------------------------
(* enrich.py: calculate_exploitability_score.  Scores are held in          *)
(* ten-thousandths (1.0 is 10000), candidate.score in thousandths and      *)
(* cvss_score in tenths, so that every weight is an integer.               *)

\* 1.0
ScoreOne == 10000

\* a cap that resets instead of clipping
MinOrZero(a, b) == IF a <= b THEN a ELSE 0

Min(a, b) == IF a <= b THEN a ELSE b

\* severities compared as they are written
LowerIdentity(sev) == sev

\* str.lower() on the severities of the model
Lower(sev) ==
    CASE sev = "CRITICAL" -> "critical"
      [] sev = "HIGH" -> "high"
      [] sev = "Medium" -> "medium"
      [] OTHER -> sev

\* lines 160-166: severity_scores.get(severity, 0.0)
SeverityScore(severity) ==
    CASE severity = "critical" -> 3000
      [] severity = "high" -> 2000
      [] severity = "medium" -> 1000
      [] severity = "low" -> 500
      [] OTHER -> 0

\* lines 172-183
HighRiskCwes ==
    { "CWE-79", "CWE-89", "CWE-78", "CWE-22", "CWE-352",
      "CWE-434", "CWE-502", "CWE-862", "CWE-863", "CWE-269" }

\* lines 145-207.  cve_data: cwe_ids (a sequence), references (their
\* number) and days_old (<<>> when published is absent or not a date).
calculate_exploitability_score(cve_data, candidate) ==
    LET base == candidate.score.v * 4
        cvss == IF candidate.cvss_score.v > 0
                THEN (Min(candidate.cvss_score.v * 100, ScoreOne) * 3) \div 10
                ELSE 0
        sev == SeverityScore(Lower(candidate.severity.v))
        cwe == IF \E i \in DOMAIN cve_data.cwe_ids : cve_data.cwe_ids[i] \in HighRiskCwes
               THEN 1000 ELSE 0
        refs == IF cve_data.references > 5 THEN 500 ELSE 0
        recent == IF cve_data.days_old # <<>> /\ cve_data.days_old[1] < 30
                  THEN 500 ELSE 0
    IN  Min(base + cvss + sev + cwe + refs + recent, ScoreOne)

\* the scorer's inputs, negative and out-of-range numbers included
CandidateScores == {-1000, 0, 500, 900, 1000, 2000}

ScorerCandidates ==
    { [cvss_score |-> JNum(c), score |-> JNum(b), severity |-> JStr(v)] :
        b \in CandidateScores,
        c \in {-50, 0, 85, 100, 150},
        v \in {"CRITICAL", "HIGH", "Medium", "low", "", "none"} }

ScorerCves ==
    { [cwe_ids |-> w, days_old |-> d, references |-> r] :
        w \in {<<>>, <<"CWE-200">>, <<"CWE-200", "CWE-79">>, <<"CWE-89", "CWE-79">>},
        d \in {<<>>, <<10>>, <<400>>},
        r \in {0, 5, 6} }

\* one call of calculate_exploitability_score
CallScore ==
    /\ call = NoCall
    /\ \E cve_data \in ScorerCves, candidate \in ScorerCandidates :
           call' = [ candidate |-> candidate, cve_data |-> cve_data,
                     fn |-> "calculate_exploitability_score",
                     result |-> calculate_exploitability_score(cve_data, candidate) ]
    /\ UNCHANGED <<joinVars, rawVars, graph, life>>

InitScore == InitFeeds(0) /\ InitRawEvents(0) /\ call = NoCall /\ InitServing

NextScore == CallScore

SpecScore == InitScore /\ [][NextScore]_vars

IsScoreCall == call.fn = "calculate_exploitability_score"

\* C20: whatever the scorer's inputs, negative and out-of-range numbers
\* included, the exploitability score lies between 0 and 1.
C20_ScoreWithinUnitInterval ==
    IsScoreCall => (0 <= call.result /\ call.result <= ScoreOne)

\* C21: with every other input held fixed, a larger candidate.score never
\* gives a smaller exploitability score.
C21_MonotonicInCandidateScore ==
    IsScoreCall =>
        \A s2 \in CandidateScores :
            call.candidate.score.v <= s2 =>
                call.result <=
                    calculate_exploitability_score(
                        call.cve_data, [call.candidate EXCEPT !.score = JNum(s2)])

\* a call that reaches the cap, and a larger candidate.score than its own
C21_Witness ==
    /\ IsScoreCall
    /\ call.result = ScoreOne
    /\ \E s2 \in CandidateScores : call.candidate.score.v < s2

---------------------------------------------------------------------------
(* enrich.py: _determine_risk_level.                                        *)

\* thresholds compared with > instead of >=
_determine_risk_level_exclusive(exploitability_score) ==
    IF exploitability_score > 8000 THEN "CRITICAL"
    ELSE IF exploitability_score > 6000 THEN "HIGH"
    ELSE IF exploitability_score > 4000 THEN "MEDIUM"
    ELSE IF exploitability_score > 2000 THEN "LOW"
    ELSE "MINIMAL"

\* lines 265-276
_determine_risk_level(exploitability_score) ==
    IF exploitability_score >= 8000 THEN "CRITICAL"
    ELSE IF exploitability_score >= 6000 THEN "HIGH"
    ELSE IF exploitability_score >= 4000 THEN "MEDIUM"
    ELSE IF exploitability_score >= 2000 THEN "LOW"
    ELSE "MINIMAL"

\* the contributions of the scoring table, each in ten-thousandths
BaseTerm(candidate) == 4 * candidate.score.v

CvssTerm(candidate) ==
    LET c == candidate.cvss_score.v
    IN  IF c > 0 THEN (IF c >= 100 THEN 3000 ELSE 30 * c) ELSE 0

SeverityTerm(candidate) ==
    LET v == candidate.severity.v
    IN  IF v \in {"critical", "CRITICAL"} THEN 3000
        ELSE IF v \in {"high", "HIGH"} THEN 2000
        ELSE IF v \in {"medium", "Medium"} THEN 1000
        ELSE IF v = "low" THEN 500
        ELSE 0

CweTerm(cve_data) ==
    IF {cve_data.cwe_ids[i] : i \in DOMAIN cve_data.cwe_ids} \cap HighRiskCwes # {}
    THEN 1000 ELSE 0

ReferencesTerm(cve_data) == IF cve_data.references >= 6 THEN 500 ELSE 0

RecencyTerm(cve_data) ==
    IF cve_data.days_old # <<>> /\ cve_data.days_old[1] <= 29 THEN 500 ELSE 0

TableSum(cve_data, candidate) ==
    BaseTerm(candidate) + CvssTerm(candidate) + SeverityTerm(candidate)
        + CweTerm(cve_data) + ReferencesTerm(cve_data) + RecencyTerm(cve_data)

\* score 0.9, cvss 8.5, severity HIGH, CWE-89 and CWE-79, six references
ConcreteCandidate == [cvss_score |-> JNum(85), score |-> JNum(900), severity |-> JStr("HIGH")]

IsConcreteCall ==
    /\ IsScoreCall
    /\ call.candidate = ConcreteCandidate
    /\ call.cve_data.cwe_ids = <<"CWE-89", "CWE-79">>
    /\ call.cve_data.references = 6

\* C22: the score is the sum of the table's contributions clipped at 1.0
\* (severity matched without regard to case, the CWE bonus added once);
\* the concrete candidate scores above 0.8 and is rated CRITICAL.
C22_ScoreIsClippedSumOfContributions ==
    /\ IsScoreCall =>
           call.result = ( IF TableSum(call.cve_data, call.candidate) >= ScoreOne
                           THEN ScoreOne
                           ELSE TableSum(call.cve_data, call.candidate) )
    /\ IsConcreteCall =>
           (call.result > 8000 /\ _determine_risk_level(call.result) = "CRITICAL")

\* the concrete call, with an old publication date
C22_Witness == IsConcreteCall /\ call.cve_data.days_old = <<400>>

\* the scores given to _determine_risk_level: -0.1 to 1.1 in steps of 0.005
MaxRiskSteps == 240

RiskScores == { 50 * k - 1000 : k \in 0..MaxRiskSteps }

\* one call of _determine_risk_level
CallRisk ==
    /\ call = NoCall
    /\ \E exploitability_score \in RiskScores :
           call' = [ exploitability_score |-> exploitability_score,
                     fn |-> "_determine_risk_level",
                     result |-> _determine_risk_level(exploitability_score) ]
    /\ UNCHANGED <<joinVars, rawVars, graph, life>>

InitRisk == InitFeeds(0) /\ InitRawEvents(0) /\ call = NoCall /\ InitServing

NextRisk == CallRisk

SpecRisk == InitRisk /\ [][NextRisk]_vars

IsRiskCall == call.fn = "_determine_risk_level"

\* C23: every score has one risk level, with inclusive lower thresholds:
\* CRITICAL from 0.8, HIGH from 0.6, MEDIUM from 0.4, LOW from 0.2, MINIMAL
\* below; 0.2, 0.4, 0.6 and 0.8 themselves are LOW, MEDIUM, HIGH, CRITICAL.
C23_RiskLevelThresholdsInclusive ==
    IsRiskCall =>
        LET x == call.exploitability_score
            level == call.result
        IN  /\ level \in {"CRITICAL", "HIGH", "MEDIUM", "LOW", "MINIMAL"}
            /\ (level = "CRITICAL") = (x >= 8000)
            /\ (level = "HIGH") = (x >= 6000 /\ x < 8000)
            /\ (level = "MEDIUM") = (x >= 4000 /\ x < 6000)
            /\ (level = "LOW") = (x >= 2000 /\ x < 4000)
            /\ (level = "MINIMAL") = (x < 2000)
            /\ x = 2000 => level = "LOW"
            /\ x = 4000 => level = "MEDIUM"
            /\ x = 6000 => level = "HIGH"
            /\ x = 8000 => level = "CRITICAL"

\* the call at exactly 0.8
C23_Witness == IsRiskCall /\ call.exploitability_score = 8000 /\ call.result = "CRITICAL"

---------------------------------------------------------------------------
(* writers/neo4j.py: _derive_dst_host_id.  An id is a string held as its   *)
(* sequence of characters; a dst_ip is held as in enrich_event.             *)

\* sep.join(parts)
RECURSIVE Join(_, _)
Join(parts, sep) ==
    IF parts = <<>> THEN <<>>
    ELSE IF Len(parts) = 1 THEN parts[1]
    ELSE parts[1] \o <<sep>> \o Join(Tail(parts), sep)

\* str(n) of a natural number
RECURSIVE Decimal(_)
Decimal(n) ==
    IF n < 10 THEN <<DigitChar(n)>>
    ELSE Decimal(n \div 10) \o <<DigitChar(n % 10)>>

\* what an f-string writes for a value
FormatValue(v) ==
    CASE v.t = "num" -> Decimal(v.v)
      [] v.t = "null" -> <<"N", "o", "n", "e">>
      [] v.t = "ipstr" -> Join(v.parts, ".")
      [] OTHER -> <<>>

\* lines 97-101: the prefixes, each without its final dot
internal_networks ==
    { << <<"1", "9", "2">>, <<"1", "6", "8">> >>, << <<"1", "0">> >> }
        \cup { << <<"1", "7", "2">>, Numeral(n) >> : n \in 16..31 }

\* dst_ip.startswith(net): the parts of net, then a dot
StartsWith(ip, net) ==
    /\ Len(ip.parts) > Len(net)
    /\ \A i \in DOMAIN net : ip.parts[i] = net[i]

\* lines 81-112
_derive_dst_host_id(dst_ip, dst_port) ==
    LET is_internal == \E net \in internal_networks : StartsWith(dst_ip, net)
    IN  IF is_internal
        THEN <<"h", "o", "s", "t", "-">> \o Join(dst_ip.parts, "-")
        ELSE <<"i", "p", ":">> \o FormatValue(dst_ip) \o <<":">> \o FormatValue(dst_port)

\* the dst_ip strings given to the derivation: dotted quads around the
\* borders of the internal ranges, with a last octet in and out of range,
\* a three-part string, a host name and an IPv6 literal
DeriveIps ==
    { IpStr(<<Numeral(a), Numeral(b), <<"1">>, Numeral(c)>>) :
        a \in {8, 10, 11, 100, 172, 192}, b \in {0, 15, 16, 31, 32, 168}, c \in {100, 256} }
    \cup { IpStr(<< <<"8">>, <<"8">>, <<"8">>, <<"8">> >>),
           IpStr(<< <<"1", "9", "2">>, <<"1", "6", "8">>, <<"1">> >>),
           IpStr(<< <<"1", "0">>, <<"e", "x">>, <<"c", "o", "m">> >>),
           IpStr(<< <<"e", "x">>, <<"c", "o", "m">> >>),
           IpStr(<< <<"2", "0", "0", "1", ":", ":", "1">> >>) }

\* args.get("dst_port"): a number, or None when the key is absent
DerivePorts == {JNum(0), JNum(53), JNum(80), JNull}

\* one call of _derive_dst_host_id
CallDerive ==
    /\ call = NoCall
    /\ \E dst_ip \in DeriveIps, dst_port \in DerivePorts :
           call' = [ dst_ip |-> dst_ip, dst_port |-> dst_port,
                     fn |-> "_derive_dst_host_id",
                     result |-> _derive_dst_host_id(dst_ip, dst_port) ]
    /\ UNCHANGED <<joinVars, rawVars, graph, life>>

InitDerive == InitFeeds(0) /\ InitRawEvents(0) /\ call = NoCall /\ InitServing

NextDerive == CallDerive

SpecDerive == InitDerive /\ [][NextDerive]_vars

IsDeriveCall == call.fn = "_derive_dst_host_id"

\* an IPv4 address of 10/8, 172.16/12 or 192.168/16
InternalIPv4(ip) ==
    /\ StrictDottedQuad(ip)
    /\ LET o1 == OctetValue(ip.parts[1])
           o2 == OctetValue(ip.parts[2])
       IN  \/ o1 = 10
           \/ o1 = 172 /\ o2 >= 16 /\ o2 <= 31
           \/ o1 = 192 /\ o2 = 168

HostDashed(ip) == <<"h", "o", "s", "t", "-">> \o Join(ip.parts, "-")

IpColonPort(ip, port) ==
    <<"i", "p", ":">> \o Join(ip.parts, ".") \o <<":">> \o FormatValue(port)

\* C24: an IPv4 dst_ip of an internal range derives "host-" and the address
\* with dashes for dots; every other dst_ip derives "ip:<dst_ip>:<dst_port>".
C24_InternalIffHostPrefix ==
    IsDeriveCall =>
        call.result = IF InternalIPv4(call.dst_ip)
                      THEN HostDashed(call.dst_ip)
                      ELSE IpColonPort(call.dst_ip, call.dst_port)

---------------------------------------------------------------------------
(* writers/neo4j.py: upsert_comm_edge against the graph store, and the     *)
(* connect branch of the dispatcher that calls it.  The store holds its    *)
(* nodes and edges in creation order; MERGE matches before it creates.     *)

\* successful upserts of one session
MaxUpserts == 3

\* dst_host_id.startswith("ip:")
StartsWithIp(id) == Len(id) >= 3 /\ SubSeq(id, 1, 3) = <<"i", "p", ":">>

\* chars.split(sep)
RECURSIVE Split(_, _)
Split(chars, sep) ==
    IF \A i \in DOMAIN chars : chars[i] # sep THEN <<chars>>
    ELSE LET k == CHOOSE i \in DOMAIN chars :
                      chars[i] = sep /\ \A j \in 1..(i - 1) : chars[j] # sep
         IN  <<SubSeq(chars, 1, k - 1)>> \o Split(SubSeq(chars, k + 1, Len(chars)), sep)

\* int(port) does not raise
IntOk(chars) == chars # <<>> /\ \A i \in DOMAIN chars : chars[i] \in Digits

\* lines 138-139 and 154: ip, port = ip_port.split(":") and int(port);
\* ok is FALSE when either raises ValueError
EndpointOf(dst_host_id) ==
    LET ip_port == SubSeq(dst_host_id, 4, Len(dst_host_id))
        pieces == IF \E i \in DOMAIN ip_port : ip_port[i] = ":"
                  THEN Split(ip_port, ":")
                  ELSE <<ip_port, <<"0">>>>
    IN  IF Len(pieces) = 2 /\ IntOk(pieces[2])
        THEN [ip |-> pieces[1], ok |-> TRUE, port |-> OctetValue(pieces[2])]
        ELSE [ip |-> <<>>, ok |-> FALSE, port |-> 0]

Node(label, key) == [ip |-> <<>>, key |-> key, label |-> label, port |-> <<>>]

Matches(nodes, label, key) ==
    { i \in DOMAIN nodes : nodes[i].label = label /\ nodes[i].key = key }

\* MERGE (n:Label {key}): the nodes that match, or a new one
MergeNode(nodes, label, key) ==
    IF Matches(nodes, label, key) # {} THEN nodes ELSE Append(nodes, Node(label, key))

\* SET b.ip = $ip, b.port = $port on every matched node
SetEndpoint(nodes, key, endpoint) ==
    [ i \in DOMAIN nodes |->
        IF i \in Matches(nodes, "NetworkEndpoint", key)
        THEN [nodes[i] EXCEPT !.ip = <<endpoint.ip>>, !.port = <<endpoint.port>>]
        ELSE nodes[i] ]

\* an edge that is created anew at every upsert
MergeEdgeAlwaysCreate(edges, from, to, now) ==
    Append(edges, [count_1h |-> 1, from |-> from, last_seen |-> now, to |-> to])

\* MERGE (a)-[r:COMMUNICATES]->(b) ON CREATE SET ... ON MATCH SET ...
MergeEdge(edges, from, to, now) ==
    IF \E i \in DOMAIN edges : edges[i].from = from /\ edges[i].to = to
    THEN [ i \in DOMAIN edges |->
             IF edges[i].from = from /\ edges[i].to = to
             THEN [edges[i] EXCEPT !.count_1h = @ + 1, !.last_seen = now]
             ELSE edges[i] ]
    ELSE Append(edges, [count_1h |-> 1, from |-> from, last_seen |-> now, to |-> to])

\* lines 134-166: the statement session.run executes, at store time now
UpsertStatement(g, src_host_id, dst_host_id, now) ==
    LET label == IF StartsWithIp(dst_host_id) THEN "NetworkEndpoint" ELSE "Host"
        n1 == MergeNode(g.nodes, "Host", src_host_id)
        n2 == MergeNode(n1, label, dst_host_id)
        n3 == IF label = "NetworkEndpoint"
              THEN SetEndpoint(n2, dst_host_id, EndpointOf(dst_host_id))
              ELSE n2
        a == CHOOSE i \in Matches(n3, "Host", src_host_id) : TRUE
        b == CHOOSE i \in Matches(n3, label, dst_host_id) : TRUE
    IN  [ clock |-> now,
          edges |-> MergeEdge(g.edges, a, b, now),
          nodes |-> n3,
          upserts |-> Append(g.upserts, <<src_host_id, dst_host_id>>) ]

\* lines 114-174: whether the call returns True.  The id is split before
\* the statement is sent, and a ValueError is not among the retried errors.
UpsertReturns(dst_host_id, outcomes) ==
    /\ StartsWithIp(dst_host_id) => EndpointOf(dst_host_id).ok
    /\ upsert_comm_edge(outcomes).returns

\* the store after a call of upsert_comm_edge: an attempt that raises
\* leaves the store as it was
AfterUpsert(g, src_host_id, dst_host_id, outcomes, now) ==
    IF UpsertReturns(dst_host_id, outcomes)
    THEN UpsertStatement(g, src_host_id, dst_host_id, now)
    ELSE g

\* metadata.host_id of the events
SrcHostIds == { <<"h", "1">>, <<"h", "2">> }

\* the decoded args of the connect events
ConnectArgs ==
    { [dst_ip |-> ip, dst_port |-> port] :
        ip \in { IpStr(<< <<"8">>, <<"8">>, <<"8">>, <<"8">> >>),
                 IpStr(<< <<"1", "0">>, <<"0">>, <<"1">>, <<"7">> >>),
                 IpStr(<< <<"2", "0", "0", "1", ":", ":", "1">> >>),
                 JNull },
        port \in {JNum(53), JNull} }

\* what the store answers to the attempts of one call: at once, after a
\* transient error, or with an error that is not retried
GraphOutcomes ==
    { [n \in 1..StoreAttempts |-> "ok"],
      [n \in 1..StoreAttempts |-> IF n = 1 THEN "TransientError" ELSE "ok"],
      [n \in 1..StoreAttempts |-> "Exception"] }

\* the store's clock does not run backwards
Ticks == {0, 1}

\* consumer.py 277-292: the connect branch of _handle_message
ProjectConnect(host_id, args, outcomes, tick) ==
    /\ Len(graph.upserts) < MaxUpserts
    /\ LET dst_host_id == IF TruthyIp(args.dst_ip)
                          THEN <<_derive_dst_host_id(args.dst_ip, args.dst_port)>>
                          ELSE <<>>
           store_ok == upsert_comm_edge(outcomes).returns
       IN  /\ graph' = IF dst_host_id = <<>> THEN graph
                       ELSE AfterUpsert(graph, host_id, dst_host_id[1], outcomes,
                                        graph.clock + tick)
           /\ call' = [ args |-> args, dst_host_id |-> dst_host_id,
                        fn |-> "project_connect", host_id |-> host_id,
                        store_ok |-> store_ok ]
    /\ UNCHANGED <<joinVars, rawVars, life>>

\* a direct call of upsert_comm_edge between two hosts
UpsertCommEdge(src_host_id, dst_host_id, outcomes, tick) ==
    /\ Len(graph.upserts) < MaxUpserts
    /\ graph' = AfterUpsert(graph, src_host_id, dst_host_id, outcomes, graph.clock + tick)
    /\ call' = [ dst_host_id |-> dst_host_id, fn |-> "upsert_comm_edge_graph",
                 returns |-> UpsertReturns(dst_host_id, outcomes),
                 src_host_id |-> src_host_id ]
    /\ UNCHANGED <<joinVars, rawVars, life>>

InitGraph == InitFeeds(0) /\ InitRawEvents(0) /\ call = NoCall /\ InitServing

NextGraph ==
    \/ \E args \in ConnectArgs, outcomes \in GraphOutcomes, tick \in Ticks :
           ProjectConnect(<<"h", "1">>, args, outcomes, tick)
    \/ \E src \in SrcHostIds, outcomes \in GraphOutcomes, tick \in Ticks :
           UpsertCommEdge(src, <<"h", "2">>, outcomes, tick)

SpecGraph == InitGraph /\ [][NextGraph]_vars

\* the successful upserts of the pair so far
UpsertsOf(pair) == Cardinality({ i \in DOMAIN graph.upserts : graph.upserts[i] = pair })

NodesWithKey(key) == { i \in DOMAIN graph.nodes : graph.nodes[i].key = key }

EdgesBetween(a, b) ==
    { i \in DOMAIN graph.edges : graph.edges[i].from = a /\ graph.edges[i].to = b }

\* one node each for src and dst, one edge between them, counting n
CountedOnce(pair, n) ==
    /\ Cardinality(NodesWithKey(pair[1])) = 1
    /\ Cardinality(NodesWithKey(pair[2])) = 1
    /\ \E a \in NodesWithKey(pair[1]), b \in NodesWithKey(pair[2]) :
           /\ Cardinality(EdgesBetween(a, b)) = 1
           /\ \A i \in EdgesBetween(a, b) : graph.edges[i].count_1h = n

NeverDecreases ==
    \A i \in DOMAIN graph.edges :
        /\ i \in DOMAIN graph'.edges
        /\ graph'.edges[i].count_1h >= graph.edges[i].count_1h
        /\ graph'.edges[i].last_seen >= graph.edges[i].last_seen

\* C25: after n successful upserts of the same (src, dst) there is one
\* source node, one destination node and one COMMUNICATES edge between
\* them whose count_1h is n; count_1h and last_seen never decrease.
C25_UpsertIsIdempotentCounter ==
    /\ [](\A i \in DOMAIN graph.upserts :
              CountedOnce(graph.upserts[i], UpsertsOf(graph.upserts[i])))
    /\ [][NeverDecreases]_vars

\* two upserts of the same pair, and another pair in between
C25_Witness ==
    /\ Len(graph.upserts) = 3
    /\ graph.upserts[1] = graph.upserts[3]
    /\ graph.upserts[1] # graph.upserts[2]
    /\ UpsertsOf(graph.upserts[1]) = 2

IsProjectCall == call.fn = "project_connect"

\* C26: for a connect event whose dst_ip is not internal, whatever its
\* dst_port and the form of the address, the upsert leaves a
\* NetworkEndpoint whose endpoint_id is "ip:<dst_ip>:<dst_port>" and whose
\* ip and port are the event's dst_ip and dst_port.
C26_EndpointRoundTrip ==
    ( /\ IsProjectCall
      /\ call.store_ok
      /\ TruthyIp(call.args.dst_ip)
      /\ ~InternalIPv4(call.args.dst_ip) )
    => \E i \in DOMAIN graph.nodes :
           /\ graph.nodes[i].label = "NetworkEndpoint"
           /\ graph.nodes[i].key = IpColonPort(call.args.dst_ip, call.args.dst_port)
           /\ graph.nodes[i].ip = <<FormatValue(call.args.dst_ip)>>
           /\ call.args.dst_port.t = "num"
           /\ graph.nodes[i].port = <<call.args.dst_port.v>>

---------------------------------------------------------------------------
(* consumer.py: main(), connect(), start(), stop(), disconnect() and the   *)
(* signal handler.  One action per await of main(); a call of a client     *)
(* library either returns or raises.                                       *)

\* SIGTERM and SIGINT deliveries to the process
MaxSignals == 2

Alive == life.exit_code = <<>>

\* a main() that logs the start-up error and goes on to its normal end
OnStartupErrorLogged(l) == [l EXCEPT !.running = FALSE, !.pc = "drain"]

\* lines 62-64 and 399-401: connect() or start() raises; main() logs,
\* calls sys.exit(1), and its finally clause runs disconnect()
OnStartupError(l) == [l EXCEPT !.startup_error = TRUE, !.running = FALSE, !.pc = "drain"]

NextToConnect(l) == Components[Len(l.connected) + 1]

\* lines 40-63: the next component is created and connected
Connect(ok) ==
    /\ Alive
    /\ life.pc = "connect"
    /\ LET c == NextToConnect(life)
           l1 == [life EXCEPT !.created = Append(@, c)]
       IN  life' = IF ~ok THEN OnStartupError(IF c = "bus" THEN life ELSE l1)
                   ELSE [l1 EXCEPT !.connected = Append(@, c),
                                   !.pc = IF Len(l1.connected) + 1 = Len(Components)
                                          THEN "subscribe" ELSE "connect"]
    /\ UNCHANGED <<joinVars, rawVars, call, graph>>

\* what the bus answers to the subscriptions of start(): all are made,
\* the first (events.raw) raises, or a later one does
SubscribeOutcomes == {"ok", "raise_first", "raise_later"}

\* lines 371-393: the three subscriptions, then running = True
Subscribe(outcome) ==
    /\ Alive
    /\ life.pc = "subscribe"
    /\ life' = IF outcome = "ok"
               THEN [life EXCEPT !.subscribed = TRUE, !.running = TRUE, !.pc = "wait"]
               ELSE OnStartupError([life EXCEPT !.subscribed = (outcome = "raise_later")])
    /\ UNCHANGED <<joinVars, rawVars, call, graph>>

\* lines 412-420: the handler of SIGTERM and SIGINT creates a stop() task
Signal ==
    /\ Alive
    /\ life.signals < MaxSignals
    /\ life' = [life EXCEPT !.signals = @ + 1, !.stop_tasks = @ + 1,
                            !.signalled_running = @ \/ (life.pc = "wait" /\ life.running)]
    /\ UNCHANGED <<joinVars, rawVars, call, graph>>

\* a stop() that leaves the shutdown event alone
stop_without_event(l) == [l EXCEPT !.running = FALSE]

\* lines 405-409: stop()
stop(l) == [l EXCEPT !.running = FALSE, !.shutdown_event = TRUE]

\* the event loop runs a stop() task
Stop ==
    /\ Alive
    /\ life.stop_tasks > 0
    /\ life' = stop([life EXCEPT !.stop_tasks = @ - 1])
    /\ UNCHANGED <<joinVars, rawVars, call, graph>>

\* lines 396-403: shutdown_event.wait() returns, start() returns and
\* main() goes on to disconnect()
Wake ==
    /\ Alive
    /\ life.pc = "wait"
    /\ life.shutdown_event
    /\ life' = [life EXCEPT !.running = FALSE, !.pc = "drain"]
    /\ UNCHANGED <<joinVars, rawVars, call, graph>>

\* the exception leaves disconnect()
OnCloseErrorRaise(l, step) ==
    [l EXCEPT !.failed = <<step>>, !.disconnect_raised = TRUE, !.pc = "exit"]

\* lines 83-84: except Exception logs the error; what was left to close
\* is skipped
OnCloseError(l, step) == [l EXCEPT !.failed = <<step>>, !.pc = "exit"]

\* the step of disconnect() after step, and the component it closes
StepAfter(step) ==
    CASE step = "drain" -> "bus"
      [] step = "bus" -> "tsw"
      [] step = "tsw" -> "gw"
      [] OTHER -> "exit"

ComponentOf(step) == IF step = "drain" THEN "bus" ELSE step

IsCreated(l, c) == \E i \in DOMAIN l.created : l.created[i] = c

\* lines 67-84: one await of disconnect(): drain and close of the bus
\* (when there is a client), close of each store (when there is a writer)
Disconnect(ok) ==
    /\ Alive
    /\ life.pc \in {"drain", "bus", "tsw", "gw"}
    /\ life' =
         IF ~IsCreated(life, ComponentOf(life.pc))
         THEN [life EXCEPT !.pc = IF life.pc = "drain" THEN "tsw" ELSE StepAfter(life.pc)]
         ELSE IF ok
         THEN [life EXCEPT !.closed = Append(@, life.pc), !.pc = StepAfter(life.pc)]
         ELSE OnCloseError(life, life.pc)
    /\ UNCHANGED <<joinVars, rawVars, call, graph>>

\* lines 446-454: main() ends; sys.exit(1) after a start-up error, and an
\* exception out of disconnect() ends asyncio.run with a traceback
Exit ==
    /\ Alive
    /\ life.pc = "exit"
    /\ life' = [life EXCEPT !.pc = "exited",
                            !.exit_code = IF life.startup_error \/ life.disconnect_raised
                                          THEN <<1>> ELSE <<0>>]
    /\ UNCHANGED <<joinVars, rawVars, call, graph>>

\* the bus invokes _process_message for a message of events.raw: from the
\* subscription until the bus connection is drained
LifeDeliver(body) ==
    /\ Alive
    /\ life.pc \in {"wait", "drain"}
    /\ life.subscribed
    /\ rawLeft > 0
    /\ rawLeft' = rawLeft - 1
    /\ raw' = Append(raw, NewHandler(body))
    /\ life' = [life EXCEPT !.late = IF life.shutdown_event
                                     THEN @ \cup {Len(raw) + 1} ELSE @]
    /\ UNCHANGED <<semaphore, joinVars, call, graph>>

\* the handlers run as long as the event loop does
LifeHandlers == Alive /\ RawProgress

LifeProgress ==
    \/ \E ok \in BOOLEAN : Connect(ok)
    \/ \E outcome \in SubscribeOutcomes : Subscribe(outcome)
    \/ Stop
    \/ Wake
    \/ \E ok \in BOOLEAN : Disconnect(ok)
    \/ Exit

\* main() after setup_signal_handlers, with n messages of events.raw to come
InitProcess(n) ==
    /\ InitFeeds(0)
    /\ InitRawEvents(n)
    /\ call = NoCall
    /\ graph = EmptyGraph
    /\ life = Process("connect", <<>>, FALSE)

\* the process and its signals
NextLife ==
    \/ LifeProgress
    \/ Signal

InitLife == InitProcess(0)

SpecLife == InitLife /\ [][NextLife]_vars

\* the event loop runs main() and the stop() task when they are ready
FairSpecLife == SpecLife /\ WF_vars(LifeProgress)

\* the process, its signals and the dispatch of events.raw
NextDispatchLife ==
    \/ NextLife
    \/ \E body \in RawBodies : LifeDeliver(body)
    \/ LifeHandlers

InitDispatchLife == InitProcess(DispatchRawMsgs)

SpecDispatchLife == InitDispatchLife /\ [][NextDispatchLife]_vars

SignalledWhileRunning == life.signalled_running

Closed(step) == \E i \in DOMAIN life.closed : life.closed[i] = step

\* the process has ended with exit code 0 after the shutdown event; unless
\* a step of disconnect() raised, the bus was drained and the stores closed
CleanShutdown ==
    /\ life.pc = "exited"
    /\ life.shutdown_event
    /\ life.exit_code = <<0>>
    /\ life.failed = <<>> => (Closed("drain") /\ Closed("tsw") /\ Closed("gw"))

Reverse(seq) == [ i \in 1..Len(seq) |-> seq[Len(seq) + 1 - i] ]

\* C28: on shutdown the bus is drained first, then the components are
\* closed in the reverse of the order in which they were connected.
C28_ClosedInReverseOfConnectOrder ==
    ( /\ life.pc = "exited"
      /\ life.shutdown_event
      /\ ~life.startup_error
      /\ life.failed = <<>> )
    => life.closed = <<"drain">> \o Reverse(life.connected)

\* the stages of the pipeline of _handle_message
PipelineStages == {"persist", "write", "project", "enrich", "publish"}

\* C29: a message handed to the callback after the shutdown event was set
\* starts no stage of the persist / project / enrich / publish pipeline.
C29_NoDispatchAfterShutdown ==
    \A i \in life.late : raw[i].reached \cap PipelineStages = {}

\* C30: disconnect() never raises: whichever of its steps fails, it
\* returns, and a shutdown still ends with exit code 0.
C30_DisconnectNeverRaises ==
    /\ ~life.disconnect_raised
    /\ life.failed # <<>> => life.pc \in {"exit", "exited"}
    /\ (life.pc = "exited" /\ ~life.startup_error) => life.exit_code = <<0>>

\* the drain of the bus raised during a shutdown
C30_Witness ==
    /\ life.failed = <<"drain">>
    /\ life.shutdown_event
    /\ life.pc = "exited"

\* connect() has raised: main() has left it with a component unconnected
ConnectFailed == life.pc # "connect" /\ Len(life.connected) < Len(Components)

IsPrefix(s, t) == Len(s) <= Len(t) /\ \A i \in DOMAIN s : s[i] = t[i]

\* C31: the components are connected in the order bus, time-series
\* writer, graph writer; when one of the connections (or the schema
\* bootstrap inside it) fails, no subscription is ever made and the
\* process ends with exit code 1.
C31_ConnectOrderAndFatalStartup ==
    /\ [](IsPrefix(life.connected, Components))
    /\ [](ConnectFailed => ~life.subscribed)
    /\ [](ConnectFailed /\ life.pc = "exited" => life.exit_code = <<1>>)
    /\ (ConnectFailed ~> life.exit_code = <<1>>)

\* the graph writer failed to connect after the bus and the time-series
\* writer had, and the process has ended
C31_Witness ==
    /\ ConnectFailed
    /\ life.connected = <<"bus", "tsw">>
    /\ life.pc = "exited"
    /\ life.exit_code = <<1>>

---------------------------------------------------------------------------
(* The publisher of publish.py: EnrichedEventPublisher, one call at a      *)
(* time, each await of the bus a step with either outcome.                 *)

\* calls of the publisher's methods in one behaviour
MaxPublisherCalls == 3

\* events in one batch
MaxBatch == 2

\* connection attempts the model follows inside one connect()
MaxConnTries == 7

\* self._max_retries
MaxConnectionRetries == 5

\* the publisher after __init__ (lines 18-22), with the record of the call
\* in progress: attempt is tenacity's attempt number, conn_tries the
\* nats.connect calls and waits the sleeps of the connect() in progress,
\* bus the answers of the bus to the publishes of the call, opened the
\* connections established so far
Publisher(client) ==
    [ attempt |-> 0, bus |-> <<>>, calls |-> 0, client |-> client,
      conn_tries |-> 0, count |-> 0, events |-> 0, fn |-> "publisher",
      left |-> 0, op |-> "none", opened |-> 0, pc |-> "idle",
      publishes |-> 0, raised |-> FALSE, ret |-> "", retries |-> 0,
      started |-> 0, waits |-> <<>> ]

\* a method is called on the idle publisher
Enter(p, op) ==
    [ p EXCEPT !.attempt = 0, !.bus = <<>>, !.calls = @ + 1, !.conn_tries = 0,
               !.count = 0, !.events = 0, !.left = 0, !.op = op,
               !.publishes = 0, !.raised = FALSE, !.ret = "",
               !.started = 0, !.waits = <<>> ]

\* self.connect() is awaited (lines 54, 86, 120)
EnterConnect(p, pc) == [p EXCEPT !.pc = pc, !.conn_tries = 0, !.waits = <<>>]

Return(p, what) == [p EXCEPT !.pc = "idle", !.ret = what]

Raise(p) == [p EXCEPT !.pc = "idle", !.raised = TRUE]

\* lines 89-98: the head of the loop of publish_events_batch
NextEvent(p) ==
    IF p.left = 0 THEN Return(p, "count")
    ELSE EnterConnect([p EXCEPT !.left = @ - 1, !.started = @ + 1,
                                !.attempt = 1, !.publishes = 0], "e_connect")

\* line 66: publish_event returns True; lines 91-92 in a batch
OnPublished(p) ==
    IF p.op = "publish_events_batch"
    THEN NextEvent([p EXCEPT !.count = @ + 1])
    ELSE Return(p, "True")

\* a retry policy that gives up after the first attempt
stop_after_first_attempt(attempt) == attempt >= 1

\* line 40: stop=stop_after_attempt(3)
stop_after_attempt(attempt) == attempt >= PublishAttempts

\* lines 68-70: an attempt of publish_event raised; tenacity calls the
\* body again, or raises RetryError to the caller (lines 93-95 in a batch)
OnAttemptFailed(p) ==
    IF ~stop_after_attempt(p.attempt)
    THEN EnterConnect([p EXCEPT !.attempt = @ + 1], "e_connect")
    ELSE IF p.op = "publish_events_batch" THEN NextEvent(p)
    ELSE Raise(p)

ConnectPcs == {"c_connect", "e_connect", "b_connect"}

\* connect() returns to connect's caller, publish_event or the batch
OnConnected(p) ==
    CASE p.pc = "c_connect" -> Return(p, "None")
      [] p.pc = "b_connect" -> NextEvent(p)
      [] OTHER -> [p EXCEPT !.pc = "e_publish"]

\* connect() raises: to the caller of connect, into an attempt of
\* publish_event, or into the except clause of the batch (lines 100-102)
OnConnectRaised(p) ==
    CASE p.pc = "c_connect" -> Raise(p)
      [] p.pc = "b_connect" -> Return(p, "count")
      [] OTHER -> OnAttemptFailed(p)

\* a connect() that sleeps and tries again without counting
on_connect_error_uncounted(p) ==
    [p EXCEPT !.conn_tries = @ + 1, !.waits = Append(@, 2 ^ (Len(@) + 1))]

\* lines 31-37: nats.connect raised; count, give up at _max_retries, else
\* sleep 2 ** _connection_retries and call connect() again
on_connect_error(p) ==
    LET q == [p EXCEPT !.retries = @ + 1, !.conn_tries = @ + 1]
    IN  IF q.retries >= MaxConnectionRetries
        THEN OnConnectRaised(q)
        ELSE [q EXCEPT !.waits = Append(@, 2 ^ q.retries)]

\* lines 26-37: one pass through connect()
connect(p, ok) ==
    IF p.client = "live" THEN OnConnected(p)
    ELSE IF ok
    THEN OnConnected([p EXCEPT !.client = "live", !.retries = 0,
                               !.conn_tries = @ + 1, !.opened = @ + 1])
    ELSE on_connect_error(p)

PublisherIdle ==
    /\ call.fn = "publisher"
    /\ call.pc = "idle"
    /\ call.calls < MaxPublisherCalls

\* await publisher.connect()
CallConnect ==
    /\ PublisherIdle
    /\ call' = EnterConnect(Enter(call, "connect"), "c_connect")
    /\ UNCHANGED <<joinVars, rawVars, graph, life>>

\* await publisher.publish_event(event_data)
CallPublishEvent ==
    /\ PublisherIdle
    /\ call' = EnterConnect([Enter(call, "publish_event") EXCEPT
                                !.attempt = 1, !.events = 1, !.started = 1],
                            "e_connect")
    /\ UNCHANGED <<joinVars, rawVars, graph, life>>

\* await publisher.publish_events_batch(events), lines 82-86
CallPublishEventsBatch(n) ==
    /\ PublisherIdle
    /\ LET p == [Enter(call, "publish_events_batch") EXCEPT !.events = n, !.left = n]
       IN  call' = IF n = 0 THEN Return(p, "count") ELSE EnterConnect(p, "b_connect")
    /\ UNCHANGED <<joinVars, rawVars, graph, life>>

\* one pass through connect(), the server answering ok or not
ConnectStep(ok) ==
    /\ call.fn = "publisher"
    /\ call.pc \in ConnectPcs
    /\ call.conn_tries < MaxConnTries
    /\ call' = connect(call, ok)
    /\ UNCHANGED <<joinVars, rawVars, graph, life>>

\* lines 57-66: the publish of one attempt
PublishStep(ok) ==
    /\ call.fn = "publisher"
    /\ call.pc = "e_publish"
    /\ LET p == [call EXCEPT !.publishes = @ + 1,
                             !.bus = Append(@, IF ok THEN "ok" ELSE "raise")]
       IN  call' = IF ok THEN OnPublished(p) ELSE OnAttemptFailed(p)
    /\ UNCHANGED <<joinVars, rawVars, graph, life>>

\* await publisher.close(), lines 104-108
CloseClient ==
    /\ call.fn = "publisher"
    /\ call.pc = "idle"
    /\ call.client = "live"
    /\ call' = [call EXCEPT !.client = "closed", !.op = "close",
                             !.raised = FALSE, !.ret = "None"]
    /\ UNCHANGED <<joinVars, rawVars, graph, life>>

\* a publisher made without a client, or around a connected one
InitPublisher ==
    /\ InitFeeds(0)
    /\ InitRawEvents(0)
    /\ call \in {Publisher("none"), Publisher("live")}
    /\ InitServing

NextPublisher ==
    \/ CallConnect
    \/ CallPublishEvent
    \/ \E n \in 0..MaxBatch : CallPublishEventsBatch(n)
    \/ \E ok \in BOOLEAN : ConnectStep(ok)
    \/ \E ok \in BOOLEAN : PublishStep(ok)
    \/ CloseClient

SpecPublisher == InitPublisher /\ [][NextPublisher]_vars

\* the publishes of the call in progress that the bus accepted
Accepted == Cardinality({i \in DOMAIN call.bus : call.bus[i] = "ok"})

PublisherReturned(op) == call.op = op /\ call.pc = "idle"

Doubling(waits) == \A i \in 1..(Len(waits) - 1) : waits[i + 1] = 2 * waits[i]

\* connect() was entered with a live client: it leaves the client, the
\* counter and the number of connections made as they are
LiveConnectIsNoOp ==
    (call.pc \in ConnectPcs /\ call.client = "live")
    => /\ call'.client = "live"
       /\ call'.retries = call.retries
       /\ call'.opened = call.opened

\* C33: one call of connect makes at most 5 connection attempts, waits a
\* doubling interval between them, then raises; a successful connection
\* sets the counter to 0, and connect does nothing when a live connection
\* exists.
C33_ConnectBounded ==
    /\ [](/\ call.conn_tries <= MaxConnectionRetries
          /\ Doubling(call.waits)
          /\ Len(call.waits) < MaxConnectionRetries
          /\ call.pc \in ConnectPcs => call.conn_tries < MaxConnectionRetries
          /\ (PublisherReturned("connect") /\ call.client # "live") => call.raised
          /\ call.client = "live" => call.retries = 0)
    /\ [][LiveConnectIsNoOp]_vars

\* connect() gave up after five attempts and the waits 2, 4, 8, 16
C33_Witness ==
    /\ PublisherReturned("connect")
    /\ call.raised
    /\ call.conn_tries = MaxConnectionRetries
    /\ call.waits = <<2, 4, 8, 16>>

---------------------------------------------------------------------------
(* The payload of a raw event: what _handle_message decodes from it.       *)

\* messages of events.raw in a behaviour of the payload specification
DecodeRawMsgs == 1

\* what the decoded JSON may be: the args of a connection, or {}
DecodeArgs == {ConnectArgsDict, EmptyDict}

\* payloads: none, a number, "", texts that are no base64 (decoded to
\* nothing or to garbage), base64 of what is no JSON, JSON encoded once
\* (its own text raising in, or surviving, a second base64 decode), twice
\* and three times, and a once-encoded JSON whose text is also the base64
\* of another JSON
DecodePayloads ==
    { JNull, JNum(5), JStr(""), JunkText(<<>>), JunkText(<<Garbage>>),
      B64(Garbage), B64(JunkText(<<>>)), B64(JunkText(<<Garbage>>)),
      B64(B64(Garbage)), B64(B64(JunkText(<<>>))),
      B64(JsonText(EmptyDict, <<JsonText(ConnectArgsDict, <<>>)>>)),
      B64(JsonText(ConnectArgsDict, <<Garbage>>)),
      B64(JsonText(ConnectArgsDict, <<JunkText(<<>>)>>)),
      B64(B64(B64(JsonText(ConnectArgsDict, <<>>)))) }
    \cup UNION { { B64(JsonText(a, <<>>)), B64(B64(JsonText(a, <<>>))) } :
                    a \in DecodeArgs }

\* connect events with each payload; other events with none, an
\* undecodable one and the args of a connection
DecodeBodies ==
    { RawBody("ok", JStr("e1"), JStr("connect"), JNum(1000), payload) :
        payload \in DecodePayloads }
    \cup { RawBody("ok", JStr("e1"), JStr("exec"), JNum(1000), payload) :
        payload \in {JNull, B64(JunkText(<<Garbage>>)), ConnectPayload} }

InitDecode ==
    /\ InitFeeds(0)
    /\ InitRawEvents(DecodeRawMsgs)
    /\ call = NoCall
    /\ InitServing

NextDecode ==
    \/ \E body \in DecodeBodies : RawDeliver(body)
    \/ RawProgress

SpecDecode == InitDecode /\ [][NextDecode]_vars

\* the payload is the base64 of the base64 of a JSON text
DoublyEncoded(p) ==
    /\ p.t = "b64"
    /\ \/ p.of.t = "b64" /\ p.of.of.t = "json"
       \/ p.of.t = "json" /\ p.of.b64 # <<>> /\ p.of.b64[1].t = "json"

\* the payload is the base64 of a JSON text
SinglyEncoded(p) == p.t = "b64" /\ p.of.t = "json"

\* the args the fallback order gives: the double reading, else the single
\* one, else {}
ExpectedArgs(p) ==
    IF DoublyEncoded(p)
    THEN IF p.of.t = "b64" THEN p.of.of.v ELSE p.of.b64[1].v
    ELSE IF SinglyEncoded(p) THEN p.of.v
    ELSE EmptyDict

Undecodable(p) == ~DoublyEncoded(p) /\ ~SinglyEncoded(p)

\* context["rdns"] of the event enrich_event returns for these args
EnrichedRdns(args, fake_rdns) ==
    LET heap == enrich_event(EventHeap(<<args>>, <<>>), "dev", fake_rdns)
    IN  heap[heap["enriched"]["context"].v]["rdns"]

\* C34: the payload is decoded as double base64 then JSON, else single
\* base64 then JSON, else {} -- the same args whichever step of the double
\* decode failed; an event whose payload cannot be decoded is enriched
\* with rdns null, published and acknowledged, and no edge is upserted.
C34_PayloadDecodeFallback ==
    \A i \in DOMAIN raw :
        LET h == raw[i]
            p == h.body.payload
        IN  /\ "enrich" \in h.reached => h.args = <<ExpectedArgs(p)>>
            /\ "project" \in h.reached =>
                   /\ h.body.type = JStr("connect")
                   /\ HasDstIp(ExpectedArgs(p))
            /\ Undecodable(p) =>
                   /\ "project" \notin h.reached /\ ~h.upserted
                   /\ h.args # <<>> =>
                          \A fake_rdns \in BOOLEAN :
                              EnrichedRdns(h.args[1], fake_rdns) = JNull
                   /\ (h.pc = "done" /\ ~h.timed_out) =>
                          /\ {"enrich", "publish"} \subseteq h.reached
                          /\ h.bus[1] = "ok" => h.published
                          /\ h.acks >= 1

\* a connect event whose payload is the base64 of bytes that are neither
\* base64 nor JSON: enriched with empty args, published, acknowledged
C34_Witness ==
    \E i \in DOMAIN raw :
        /\ raw[i].body.type = JStr("connect")
        /\ raw[i].body.payload = B64(JunkText(<<Garbage>>))
        /\ raw[i].pc = "done"
        /\ raw[i].args = <<EmptyDict>>
        /\ raw[i].published
        /\ ~raw[i].upserted
        /\ raw[i].acks >= 1

---------------------------------------------------------------------------
(* write_events_batch of the two writers.                                  *)

\* events in one batch of the writers
MaxBatchEvents == 3

\* what the database answers to the INSERT of one event: it runs, it is
\* refused before it reaches the server (the transaction stays usable), or
\* the server fails it (the transaction is aborted, and every later
\* statement of the transaction fails)
ExecuteOutcomes == {"ok", "client_error", "server_error"}

\* the transaction is aborted before the i-th statement
Aborted(outcomes, i) == \E j \in 1..(i - 1) : outcomes[j] = "server_error"

\* cursor.execute of the i-th event raises
ExecuteRaises(outcomes, i) == outcomes[i] # "ok" \/ Aborted(outcomes, i)

\* lines 247-274: written_count after the loop
WrittenCount(outcomes) ==
    Cardinality({i \in DOMAIN outcomes : ~ExecuteRaises(outcomes, i)})

\* timescale.py 227-283: write_events_batch(events); conn is what
\* obtaining the pool and a connection does, commit what conn.commit() does
timescale_write_events_batch(conn, outcomes, commit) ==
    IF outcomes = <<>>
    THEN [attempted |-> 0, opened |-> FALSE, persisted |-> 0, ret |-> 0]
    ELSE IF conn = "raise"
    THEN [attempted |-> 0, opened |-> FALSE, persisted |-> 0, ret |-> 0]
    ELSE IF commit = "raise"
    THEN [attempted |-> Len(outcomes), opened |-> TRUE, persisted |-> 0, ret |-> 0]
    ELSE [attempted |-> Len(outcomes), opened |-> TRUE,
          persisted |-> IF Aborted(outcomes, Len(outcomes) + 1)
                        THEN 0 ELSE WrittenCount(outcomes),
          ret |-> WrittenCount(outcomes)]

\* what the statements of one event do in the graph store
GraphEventOutcomes == {"ok", "raise"}

\* a batch that ends at the first event that fails
neo4j_write_events_batch_stop_at_failure(session, outcomes) ==
    LET firstBad == IF \E i \in DOMAIN outcomes : outcomes[i] # "ok"
                    THEN CHOOSE i \in DOMAIN outcomes :
                             /\ outcomes[i] # "ok"
                             /\ \A j \in 1..(i - 1) : outcomes[j] = "ok"
                    ELSE Len(outcomes) + 1
    IN  IF outcomes = <<>> \/ session = "raise"
        THEN [attempted |-> 0, opened |-> FALSE, persisted |-> 0, ret |-> 0]
        ELSE [attempted |-> IF firstBad > Len(outcomes) THEN Len(outcomes) ELSE firstBad,
              opened |-> TRUE, persisted |-> firstBad - 1, ret |-> firstBad - 1]

\* neo4j.py 352-432: write_events_batch(events); session is what
\* connect() and driver.session() do; each statement commits by itself
neo4j_write_events_batch(session, outcomes) ==
    LET n == Cardinality({i \in DOMAIN outcomes : outcomes[i] = "ok"})
    IN  IF outcomes = <<>>
        THEN [attempted |-> 0, opened |-> FALSE, persisted |-> 0, ret |-> 0]
        ELSE IF session = "raise"
        THEN [attempted |-> 0, opened |-> FALSE, persisted |-> 0, ret |-> 0]
        ELSE [attempted |-> Len(outcomes), opened |-> TRUE, persisted |-> n, ret |-> n]

BatchesOf(S) == UNION { [1..n -> S] : n \in 0..MaxBatchEvents }

CallTimescaleBatch ==
    /\ call = NoCall
    /\ \E conn \in {"ok", "raise"}, commit \in {"ok", "raise"},
          outcomes \in BatchesOf(ExecuteOutcomes) :
           call' = [ commit |-> commit, conn |-> conn,
                     fn |-> "timescale.write_events_batch",
                     outcomes |-> outcomes,
                     raises |-> [i \in DOMAIN outcomes |-> ExecuteRaises(outcomes, i)],
                     result |-> timescale_write_events_batch(conn, outcomes, commit) ]
    /\ UNCHANGED <<joinVars, rawVars, graph, life>>

CallNeo4jBatch ==
    /\ call = NoCall
    /\ \E session \in {"ok", "raise"}, outcomes \in BatchesOf(GraphEventOutcomes) :
           call' = [ commit |-> "ok", conn |-> session,
                     fn |-> "neo4j.write_events_batch",
                     outcomes |-> outcomes,
                     raises |-> [i \in DOMAIN outcomes |-> outcomes[i] # "ok"],
                     result |-> neo4j_write_events_batch(session, outcomes) ]
    /\ UNCHANGED <<joinVars, rawVars, graph, life>>

InitBatch == InitFeeds(0) /\ InitRawEvents(0) /\ call = NoCall /\ InitServing

NextBatch ==
    \/ CallTimescaleBatch
    \/ CallNeo4jBatch

SpecBatch == InitBatch /\ [][NextBatch]_vars

IsBatchCall ==
    call.fn \in {"timescale.write_events_batch", "neo4j.write_events_batch"}

\* the events of the batch whose write did not raise
NotRaised == Cardinality({i \in DOMAIN call.raises : ~call.raises[i]})

\* an empty list returns 0 and opens nothing; a failure of one event
\* leaves every later event attempted
BatchGoesOn ==
    /\ call.outcomes = <<>> => (call.result.ret = 0 /\ ~call.result.opened)
    /\ call.result.opened => call.result.attempted = Len(call.outcomes)

\* C35 as stated: write_events_batch returns the number of events whose
\* write did not raise, later events are attempted after a failure, and
\* an empty list returns 0 without a connection or session.
C35_BatchReturnsNonRaisingWrites ==
    IsBatchCall =>
        /\ BatchGoesOn
        /\ call.result.opened => call.result.ret = NotRaised

\* C35, amended: the count is that of the events whose write did not
\* raise when the connection was obtained and the commit did not raise;
\* when the commit raises, write_events_batch returns 0.
C35_BatchReturnsNonRaisingWritesIfCommitted ==
    IsBatchCall =>
        /\ BatchGoesOn
        /\ (call.result.opened /\ call.commit = "ok") => call.result.ret = NotRaised
        /\ (call.conn = "raise" \/ call.commit = "raise") => call.result.ret = 0

\* three events, the second refused: the third is written and 2 is returned
C35_Witness ==
    /\ call.fn = "timescale.write_events_batch"
    /\ call.outcomes = <<"ok", "client_error", "ok">>
    /\ call.commit = "ok"
    /\ call.result.ret = 2
    /\ call.result.attempted = 3

---------------------------------------------------------------------------
(* enrich.py: the enrichment block of the join record.                     *)

\* round(x, 3) of a score held in ten-thousandths: the nearest thousandth,
\* a tie going to the even one
Round3(x) ==
    LET q == x \div 10
        r == x % 10
    IN  IF r < 5 THEN 10 * q
        ELSE IF r > 5 THEN 10 * (q + 1)
        ELSE IF q % 2 = 0 THEN 10 * q ELSE 10 * (q + 1)

\* lines 223 and 248-253: the "enrichment" entry of the record
Enrichment(cve_data, candidate) ==
    LET exploitability_score == calculate_exploitability_score(cve_data, candidate)
    IN  [ exploitability_score |-> Round3(exploitability_score),
          risk_level |-> _determine_risk_level(exploitability_score) ]

\* candidates of the mapper: score in thousandths, cvss_score in tenths
EmitCandidates ==
    { [cvss_score |-> JNum(c), score |-> JNum(b), severity |-> JStr(v)] :
        b \in {0, 500, 999, 1000},
        c \in {0, 85, 100},
        v \in {"CRITICAL", "HIGH", "none"} }

\* one call of enrich_pkg_cve_event, as far as the enrichment entry goes
CallEnrichPkgCve ==
    /\ call = NoCall
    /\ \E cve_data \in ScorerCves, candidate \in EmitCandidates :
           call' = [ candidate |-> candidate, cve_data |-> cve_data,
                     fn |-> "enrich_pkg_cve_event",
                     result |-> Enrichment(cve_data, candidate),
                     score |-> calculate_exploitability_score(cve_data, candidate) ]
    /\ UNCHANGED <<joinVars, rawVars, graph, life>>

InitEmit == InitFeeds(0) /\ InitRawEvents(0) /\ call = NoCall /\ InitServing

NextEmit == CallEnrichPkgCve

SpecEmit == InitEmit /\ [][NextEmit]_vars

\* C36: in an emitted join record exploitability_score is the scorer's
\* result rounded to 3 decimals, and risk_level is the level of the
\* risk-level mapping for that emitted, rounded score.
C36_RiskLevelAgreesWithEmittedScore ==
    call.fn = "enrich_pkg_cve_event" =>
        /\ call.result.exploitability_score = Round3(call.score)
        /\ call.result.risk_level =
               _determine_risk_level(call.result.exploitability_score)

---------------------------------------------------------------------------
(* The join engine with publishes to etl.enriched that may raise.          *)

\* feed messages delivered in a run of the join engine with failing publishes
FaultyFeedMsgs == 3

InitJoinFaulty ==
    /\ InitFeeds(FaultyFeedMsgs)
    /\ InitRawEvents(0)
    /\ call = NoCall
    /\ InitServing

NextJoinFaulty ==
    \/ \E msg \in CveUpdates, pub \in JoinPublishOutcomes : CveUpdate(msg, pub)
    \/ \E pub \in JoinPublishOutcomes : CveWalkResume(pub)
    \/ \E msg \in PkgCveMappings, pub \in JoinPublishOutcomes : PkgCveMapping(msg, pub)
    \/ \E pub \in JoinPublishOutcomes : PkgLoopResume(pub)

SpecJoinFaulty == InitJoinFaulty /\ [][NextJoinFaulty]_vars

\* the join record of this mapping and candidate was published by the
\* handler of message n
EmittedBy(n, mapping, candidate) ==
    \E j \in DOMAIN etl_enriched :
        /\ etl_enriched[j].during = n
        /\ etl_enriched[j].record.host_id = mapping.host_id
        /\ etl_enriched[j].record.package = mapping.package
        /\ etl_enriched[j].record.original_timestamp = mapping.timestamp
        /\ etl_enriched[j].record.cve_candidate = candidate

\* the publish of the join record of this mapping and candidate raised
LostBy(h, mapping, candidate) ==
    \E r \in h.lost :
        /\ r.host_id = mapping.host_id
        /\ r.package = mapping.package
        /\ r.original_timestamp = mapping.timestamp
        /\ r.cve_candidate = candidate

\* the candidate was dealt with: its scoring raised, its publish raised,
\* or its record was emitted
Contained(h, mapping, candidate) ==
    \/ ScoreRaises(h, candidate)
    \/ LostBy(h, mapping, candidate)
    \/ EmittedBy(h.n, mapping, candidate)

\* the mapping handler has ended: every candidate was looked at, and every
\* one with a cached CVE was dealt with
MappingLoopCompleted ==
    (pkgH.pc = "done" /\ pkgH.msg.timestamp > 0) =>
        /\ pkgH.hits \cup pkgH.misses = DOMAIN pkgH.msg.candidates
        /\ \A i \in pkgH.hits : Contained(pkgH, pkgH.msg, pkgH.msg.candidates[i])

\* the walk of a CVE update has ended, undisturbed by a mapping handler:
\* every candidate of the CVE in every retained mapping was dealt with
WalkCompleted ==
    (cveH.pc = "done" /\ cveH.n > 0 /\ ~cveH.aborted /\ pkg_cve_cache = cveH.retained) =>
        \A e \in DOMAIN cveH.retained :
            \A i \in DOMAIN cveH.retained[e].val.candidates :
                LET candidate == cveH.retained[e].val.candidates[i]
                IN  candidate.cve_id = cveH.cve_data.cve_id =>
                        Contained(cveH, cveH.retained[e].val, candidate)

\* the entries the running handlers stored are still in the caches
CachesKept ==
    /\ (pkgH.pc \in {"publishing", "done"} /\ pkgH.msg.timestamp > 0) =>
           LET k == OrderedFind(pkg_cve_cache,
                                CacheKey(pkgH.msg.host_id, pkgH.msg.package), 1)
           IN  k > 0 /\ pkg_cve_cache[k].val = pkgH.msg
    /\ (cveH.pc \in {"publishing", "done"} /\ cveH.cve_data.cve_id # "") =>
           /\ cveH.cve_data.cve_id \in DOMAIN cve_cache
           /\ cve_cache[cveH.cve_data.cve_id] = cveH.cve_data

\* C37: a failure while scoring, building or publishing the join record
\* of one candidate is contained to that candidate: the other candidates
\* of the mapping and the other retained mappings of a walk are still
\* processed and emitted, and the cached entries stay as they were.
C37_CandidateFailureContained ==
    /\ MappingLoopCompleted
    /\ WalkCompleted
    /\ CachesKept

\* a mapping with two cached candidates: the publish of the first raised,
\* the second was emitted
C37_Witness ==
    /\ pkgH.pc = "done"
    /\ Len(pkgH.msg.candidates) = 2
    /\ pkgH.hits = {1, 2}
    /\ LostBy(pkgH, pkgH.msg, pkgH.msg.candidates[1])
    /\ EmittedBy(pkgH.n, pkgH.msg, pkgH.msg.candidates[2])

---------------------------------------------------------------------------
(* consumer.py disconnect(): what was attempted when it returns.           *)

\* the step of disconnect() was awaited: it returned or it raised
Attempted(step) == Closed(step) \/ life.failed = <<step>>

\* disconnect() has returned
DisconnectReturned == life.pc \in {"exit", "exited"} /\ ~life.disconnect_raised

\* C38: close is best-effort per component: when disconnect() returns,
\* the drain of the bus and the close of every connected store have been
\* attempted, whichever of the earlier steps failed.
C38_CloseAttemptedOnEveryComponent ==
    DisconnectReturned =>
        \A i \in DOMAIN life.connected :
            Attempted(IF life.connected[i] = "bus" THEN "drain" ELSE life.connected[i])

---------------------------------------------------------------------------
(* writers/neo4j.py write_event over the graph store: each attempt runs    *)
(* upsert_comm_edge in a session of its own, then the relationships.       *)

\* what _create_event_relationships does at the successive attempts of
\* one write_event call
RelationshipOutcomes ==
    { [n \in 1..StoreAttempts |-> "ok"],
      [n \in 1..StoreAttempts |-> IF n = 1 THEN "TransientError" ELSE "ok"],
      [n \in 1..StoreAttempts |-> IF n = 1 THEN "ServiceUnavailable" ELSE "Exception"] }

\* the decoded args of the connect events written: an external address
\* with its port, and one without dst_ip
GraphWriteArgs ==
    { [dst_ip |-> IpStr(<< <<"8">>, <<"8">>, <<"8">>, <<"8">> >>), dst_port |-> JNum(53)],
      [dst_ip |-> JNull, dst_port |-> JNum(53)] }

\* lines 176-231: _parse_connect_event of a connect event with these args:
\* the destination id, or nothing when dst_ip or dst_port is missing
ConnectDst(args) ==
    IF TruthyIp(args.dst_ip) /\ args.dst_port # JNull
    THEN <<_derive_dst_host_id(args.dst_ip, args.dst_port)>>
    ELSE <<>>

\* lines 233-307: attempt n of write_event and the attempts after it.  The
\* upsert of an attempt is committed by its own session before the
\* relationships are created; an exception of upsert_comm_edge that is
\* left after its own retries is not retried here.
RECURSIVE neo4j_write_event_attempts(_, _, _, _, _, _, _)
neo4j_write_event_attempts(g, src_host_id, dst, edge, rels, now, n) ==
    LET upsert_ok == dst = <<>> \/ UpsertReturns(dst[1], edge)
        g1 == IF dst = <<>> THEN g
              ELSE AfterUpsert(g, src_host_id, dst[1], edge, now)
    IN  IF ~upsert_ok
        THEN [attempts |-> n, graph |-> g1, returns |-> FALSE]
        ELSE IF rels[n] = "ok"
        THEN [attempts |-> n, graph |-> g1, returns |-> TRUE]
        ELSE IF rels[n] \in Neo4jRetryable /\ n < StoreAttempts
        THEN neo4j_write_event_attempts(g1, src_host_id, dst, edge, rels, now, n + 1)
        ELSE [attempts |-> n, graph |-> g1, returns |-> FALSE]

\* count_1h of the COMMUNICATES edges between src and dst in g
CountOf(g, src_host_id, dst_host_id) ==
    LET between == { i \in DOMAIN g.edges :
                       /\ g.nodes[g.edges[i].from].key = src_host_id
                       /\ g.nodes[g.edges[i].to].key = dst_host_id }
    IN  IF between = {} THEN 0
        ELSE g.edges[CHOOSE i \in between : TRUE].count_1h

\* one call of Neo4jWriter.write_event for a connect event
Neo4jWriteEvent(src_host_id, args, edge, rels, tick) ==
    /\ Len(graph.upserts) < MaxUpserts
    /\ LET dst == ConnectDst(args)
           r == neo4j_write_event_attempts(graph, src_host_id, dst, edge, rels,
                                           graph.clock + tick, 1)
       IN  /\ graph' = r.graph
           /\ call' = [ args |-> args, attempts |-> r.attempts,
                        before |-> IF dst = <<>> THEN 0
                                   ELSE CountOf(graph, src_host_id, dst[1]),
                        dst_host_id |-> dst, fn |-> "neo4j_write_event_graph",
                        returns |-> r.returns, src_host_id |-> src_host_id ]
    /\ UNCHANGED <<joinVars, rawVars, life>>

InitGraphWrite == InitFeeds(0) /\ InitRawEvents(0) /\ call = NoCall /\ InitServing

NextGraphWrite ==
    \/ \E args \in GraphWriteArgs, edge \in GraphOutcomes,
          rels \in RelationshipOutcomes, tick \in Ticks :
           Neo4jWriteEvent(<<"h", "1">>, args, edge, rels, tick)
    \/ \E outcomes \in GraphOutcomes, tick \in Ticks :
           UpsertCommEdge(<<"h", "1">>, <<"h", "2">>, outcomes, tick)

SpecGraphWrite == InitGraphWrite /\ [][NextGraphWrite]_vars

IsGraphWriteCall == call.fn = "neo4j_write_event_graph"

\* C39: a write_event call that returns True for a connect event raises
\* count_1h of the event's COMMUNICATES edge by exactly 1, also when the
\* call was retried after a transient error in a later step.
C39_WriteEventCountsOnce ==
    ( /\ IsGraphWriteCall
      /\ call.returns
      /\ call.dst_host_id # <<>> )
    => CountOf(graph, call.src_host_id, call.dst_host_id[1]) = call.before + 1

---------------------------------------------------------------------------
(* Late joins after a mapping was replaced.                                *)

\* message n of the feeds was a CVE update: its records come from the walk
IsWalk(n) ==
    \E id \in CveIds : \E i \in DOMAIN cve_hist[id] : cve_hist[id][i] = n

\* the mapping version of the record was the latest of its key when the
\* CVE update that emitted it arrived
FromLatestVersion(e) ==
    LET k == CacheKey(e.record.host_id, e.record.package)
        ts == e.record.original_timestamp
    IN  /\ \E i \in DOMAIN pkg_hist[k] : pkg_hist[k][i] = ts
        /\ ~\E i \in DOMAIN pkg_hist[k] :
               ts < pkg_hist[k][i] /\ pkg_hist[k][i] < e.during

\* a record of the walk in hand whose mapping was retained when the walk
\* began carries a candidate of that retained mapping
FromRetainedCandidates(e) ==
    (e.during = cveH.n /\ e.record.original_timestamp < cveH.n) =>
        \E p \in DOMAIN cveH.retained :
            LET m == cveH.retained[p].val IN
            /\ MappingKey(m) = CacheKey(e.record.host_id, e.record.package)
            /\ m.timestamp = e.record.original_timestamp
            /\ \E c \in DOMAIN m.candidates : m.candidates[c] = e.record.cve_candidate

\* C40: only the latest mapping per (host_id, package.name) is retained
\* for late joins: a CVE update that arrives after a mapping was replaced
\* emits join records only for candidates of the newer mapping, never for
\* those of the replaced one.
C40_LateJoinUsesLatestMapping ==
    \A j \in DOMAIN etl_enriched :
        IsWalk(etl_enriched[j].during) =>
            /\ FromLatestVersion(etl_enriched[j])
            /\ FromRetainedCandidates(etl_enriched[j])

\* a mapping whose CVE-Y candidate was joined is replaced by one without
\* it; a CVE update that arrives later is joined with the newer mapping
C40_Witness ==
    \E k \in Keys :
        /\ Len(pkg_hist[k]) = 2
        /\ \E j \in DOMAIN etl_enriched :
               /\ CacheKey(etl_enriched[j].record.host_id, etl_enriched[j].record.package) = k
               /\ etl_enriched[j].record.original_timestamp = pkg_hist[k][1]
               /\ etl_enriched[j].record.cve_candidate.cve_id = "CVE-Y"
        /\ Cached(k) # <<>>
        /\ \A c \in DOMAIN Cached(k)[1].candidates :
               Cached(k)[1].candidates[c].cve_id # "CVE-Y"
        /\ \E j \in DOMAIN etl_enriched :
               /\ IsWalk(etl_enriched[j].during)
               /\ etl_enriched[j].during > pkg_hist[k][2]
               /\ CacheKey(etl_enriched[j].record.host_id, etl_enriched[j].record.package) = k
               /\ etl_enriched[j].record.original_timestamp = pkg_hist[k][2]

===========================================================================
